---- MODULE Spec2Model ----
(***************************************************************************)
(* PipeMagic: the graph utilities (topoSort, validatePipeline, ...) and    *)
(* the scheduler runPipeline of packages/runtime, as state machines.       *)
(*                                                                         *)
(*   SpecGraph : a pipeline is drawn, then topoSort / validatePipeline are *)
(*               applied to it.                                            *)
(*   SpecRun   : a pipeline and a cancellation signal are drawn, then      *)
(*               runPipeline is called (twice in a row at most).           *)
(***************************************************************************)
EXTENDS Integers, Sequences, FiniteSets, TLC

\* ------------------------------------------------------------------ bounds
MaxNodes == 3
MaxEdges == 2
MaxRuns == 2      \* calls of runPipeline in a row
MaxProgress == 1  \* progress events of one executor invocation
MaxClock == 1     \* Date.now() takes the values 0..MaxClock

VARIABLES
  nodes,      \* PipelineDefinition.nodes : sequence of [id, type, params]
  edges,      \* PipelineDefinition.edges : sequence of [source, target]
  gpc,        \* SpecGraph: which graph utility has been applied
  sortResult, \* SpecGraph: what topoSort(nodes, edges) did
  errors,     \* SpecGraph: what validatePipeline(nodes, edges) returned
  downSeed,   \* SpecGraph: the nodeId given to getDownstreamNodes
  downResult, \* SpecGraph: what getDownstreamNodes(downSeed, edges) returned
  runNo,      \* SpecRun: how many times runPipeline has been called
  pc,         \* SpecRun: where the current call of runPipeline is
  aborted,    \* abortSignal.aborted of the current call
  abortedAtCall, \* history: abortSignal.aborted when the call was made
  nodeStates, \* the Map nodeStates of the current call
  order,      \* const order = topoSort(nodes, edges)
  idx,        \* the position in order of the for loop (1-based)
  inputFrame, \* const inputFrame = createFrame(inputImage)
  lastOutputFrame,
  inputs,     \* the local inputs of the node being executed
  cacheKey,   \* the local cacheKey of the node being executed
  nProgress,  \* progress events the running executor has delivered
  callbacks,  \* history: the calls of options.onNodeStatus / onNodeProgress
  invoked,    \* history: the executors invoked, each with its inputs.length
  results,    \* history: how each call settled
  now,        \* Date.now()
  hpc,        \* SpecHash: whether computeCacheKey has been applied
  hNode,      \* SpecHash: the node id of both calls
  hParamsA,   \* SpecHash: params of the first call
  hRevsA,     \* SpecHash: inputRevisions of the first call
  hParamsB,   \* SpecHash: params of the second call
  hRevsB,     \* SpecHash: inputRevisions of the second call
  hKeyA,      \* SpecHash: what the first call returned
  hKeyB,      \* SpecHash: what the second call returned
  hasGpu,         \* SpecGpu: navigator.gpu is there
  gpuDevice,      \* gpu.ts: let gpuDevice (NoDevice for null)
  gpuInitialized, \* gpu.ts: let gpuInitialized
  gpuCalls,       \* SpecGpu: the calls of initGpu made so far
  gpuDevices,     \* SpecGpu: how many devices requestDevice has given out
  gpuLost,        \* SpecGpu: the devices whose lost promise has resolved
  gpuLostPending, \* history: lost has fired and initGpu was not called since
  gpuSeen,        \* history: what the last getGpuDevice() returned
  exKind,      \* SpecExec: the executor invoked
  exGpu,       \* SpecExec: ctx.gpuDevice is there
  exEmpty,     \* SpecExec: the input image has no pixel with alpha > 10
  exInputs,    \* SpecExec: inputs.length
  exAborted,   \* SpecExec: ctx.abortSignal.aborted
  exPath,      \* SpecExec: which body is executing ("main", "gpu", "cpu")
  exPos,       \* SpecExec: the next step of that body
  exProgress,  \* history: the values passed to onNodeProgress
  exGpuThrew,  \* history: the error executeOutlineGpu threw, if any
  exResult,    \* SpecExec: how the invocation settled
  storeStates,     \* stores/pipeline.ts: nodeStates
  inputImages,     \* stores/pipeline.ts: inputImages
  isRunning,       \* stores/pipeline.ts: isRunning
  abortController, \* stores/pipeline.ts: abortController (0 for null)
  abortedSignals,  \* the AbortControllers on which abort() was called
  gpuReady,        \* SpecEditor: a call of initGpu has finished
  runs,            \* SpecEditor: the calls of run() of usePipelineRunner
  timers,          \* SpecEditor: pending setTimeout(() => run(), 50)
  edNow,           \* SpecEditor: Date.now()
  uploads,         \* SpecEditor: images handed to handleFile so far
  edits,           \* SpecEditor: calls of updateNodeParams so far
  nextRun,         \* history: per input node, the first run called after
                   \* its image was last replaced
  scenario,        \* history: an edit made after a completed run, and the
                   \* run called after it
  overlapped,      \* history: two calls of run() were in flight together
  segmenter,    \* remove-bg: the module's segmenter (the device it runs on)
  loadedDtype,  \* remove-bg: the module's loadedDtype
  rbPc,         \* SpecRemoveBg: where the invocation of executeRemoveBg is
  rbCalls,      \* SpecRemoveBg: invocations so far
  rbDevice,     \* SpecRemoveBg: params.device
  rbDtype,      \* SpecRemoveBg: params.dtype
  rbAdapter,    \* SpecRemoveBg: what navigator.gpu.requestAdapter() gives
  rbActual,     \* SpecRemoveBg: actualDevice of getSegmenter
  rbTries,      \* history: the attempts of the invocation that used a device
  rbResult,     \* SpecRemoveBg: how the invocation settled
  olPc,         \* SpecOutline: where the invocation of executeOutline is
  olImage,      \* SpecOutline: the pixels of the input frame
  olParams,     \* SpecOutline: the node's params
  olOut,        \* SpecOutline: the pixels of the returned frame
  rzPc,         \* SpecResize: where the input node is
  rzSource,     \* SpecResize: width and height of the source image
  rzParams,     \* SpecResize: the input node's params
  rzOut,        \* SpecResize: width and height of the node's output frame
  pmInitialized, \* SpecPipeMagic: the instance's field gpuInitialized
  pmRuns,       \* SpecPipeMagic: the calls of run() on the instance
  scriptLoaded, \* SpecUpscaler: websr.ts, the runtime script has loaded
  wsGpuDevice,  \* SpecUpscaler: websr.ts gpuDevice (TRUE when it is set)
  wsInstance,   \* SpecUpscaler: websr.ts instance (0: null, k: k-th built)
  currentKey,   \* SpecUpscaler: websr.ts currentKey (<<>>: null)
  weightsCache, \* SpecUpscaler: the keys whose weights are cached
  upCalls,      \* SpecUpscaler: the calls of getUpscaler
  upBuilt,      \* SpecUpscaler: how many WebSR instances were constructed
  upSwitches,   \* SpecUpscaler: the calls of switchNetwork, in order
  sgSegmenter,  \* SpecSegmenter: part_002 segmenter, by the dtype it was
                \* loaded with ("": null)
  loadingPromise, \* SpecSegmenter: part_002 loadingPromise (0: null, k: the
                \* promise of the k-th load)
  sgLoadedDtype, \* SpecSegmenter: part_002 loadedDtype ("": null)
  sgLoads,      \* SpecSegmenter: the loads started by getSegmenter
  sgCalls,      \* SpecSegmenter: the calls of getSegmenter
  ogDim,        \* SpecOutlineGpu: the larger side of the input frame
  ogPos,        \* SpecOutlineGpu: the next step of executeOutlineGpu
  ogLive,       \* SpecOutlineGpu: the textures and buffers that were
                \* created and not destroyed
  ogAborted,    \* SpecOutlineGpu: ctx.abortSignal.aborted
  ogResult,     \* SpecOutlineGpu: how the invocation settled
  chWidth,      \* SpecChamfer: width of the image
  chHeight,     \* SpecChamfer: height of the image
  chImage,      \* SpecChamfer: the pixels of the image
  chInner,      \* SpecChamfer: the inner field is computed (else the outer)
  chDist,       \* SpecChamfer: the field after chamferDistance (<<>> before)
  jfWidth,      \* SpecJfa: width of the input frame
  jfHeight,     \* SpecJfa: height of the input frame
  jfImage,      \* SpecJfa: the pixels of the input texture
  jfPc,         \* SpecJfa: the next pass
  jfInvert,     \* SpecJfa: runJfaPass's invert (the inner field is computed)
  jfI,          \* SpecJfa: runJfaPass's i
  jfStepSize,   \* SpecJfa: runJfaPass's stepSize
  jfReadTex,    \* SpecJfa: the texture readTex stands for
  jfOuterDist,  \* SpecJfa: outerDistTex (<<>> before it is written)
  jfInnerDist,  \* SpecJfa: innerDistTex (<<>> before it is written)
  jfOutline     \* SpecJfa: the pixels the composite pass draws outline on

graphVars == <<gpc, sortResult, errors, downSeed, downResult>>
pipelineVars == <<nodes, edges>>
runVars == <<runNo, pc, aborted, abortedAtCall, nodeStates, order, idx,
             inputFrame, lastOutputFrame, inputs, cacheKey, nProgress,
             callbacks, invoked, results, now>>
hashVars == <<hpc, hNode, hParamsA, hRevsA, hParamsB, hRevsB, hKeyA, hKeyB>>
\* the variables of the specifications other than SpecGraph and SpecRun
gpuVars == <<hasGpu, gpuDevice, gpuInitialized, gpuCalls, gpuDevices, gpuLost,
             gpuLostPending, gpuSeen>>
execVars == <<exKind, exGpu, exEmpty, exInputs, exAborted, exPath, exPos,
              exProgress, exGpuThrew, exResult>>
editorVars == <<storeStates, inputImages, isRunning, abortController,
                abortedSignals, gpuReady, runs, timers, edNow, uploads, edits,
                nextRun, scenario, overlapped>>
rbVars == <<segmenter, loadedDtype, rbPc, rbCalls, rbDevice, rbDtype,
            rbAdapter, rbActual, rbTries, rbResult>>
olVars == <<olPc, olImage, olParams, olOut>>
rzVars == <<rzPc, rzSource, rzParams, rzOut>>
pmVars == <<pmInitialized, pmRuns>>
upVars == <<scriptLoaded, wsGpuDevice, wsInstance, currentKey, weightsCache,
            upCalls, upBuilt, upSwitches>>
sgVars == <<sgSegmenter, loadingPromise, sgLoadedDtype, sgLoads, sgCalls>>
ogVars == <<ogDim, ogPos, ogLive, ogAborted, ogResult>>
chVars == <<chWidth, chHeight, chImage, chInner, chDist>>
jfVars == <<jfWidth, jfHeight, jfImage, jfPc, jfInvert, jfI, jfStepSize,
            jfReadTex, jfOuterDist, jfInnerDist, jfOutline>>
moreVars == <<pmVars, upVars, sgVars, ogVars, chVars, jfVars>>
restVars == <<rbVars, olVars, rzVars, moreVars>>
extVars == <<hashVars, gpuVars, execVars, editorVars, restVars>>
vars == <<nodes, edges, gpc, sortResult, errors, downSeed, downResult, runNo, pc, aborted,
          abortedAtCall, nodeStates, order, idx, inputFrame, lastOutputFrame,
          inputs, cacheKey, nProgress, callbacks, invoked, results, now,
          extVars>>

\* ------------------------------------------------------------ the pipeline
NodeIds == 1..MaxNodes
NodeTypes == {"input", "proc", "output"}
NoId == 0

EdgeDefs == [source : NodeIds, target : NodeIds]

RECURSIVE SeqsUpTo(_, _)
\* all sequences of distinct elements of S of length <= n
SeqsUpTo(S, n) ==
  IF n = 0 THEN {<<>>}
  ELSE LET shorter == SeqsUpTo(S, n - 1)
       IN shorter \cup
          { Append(s, x) : s \in {t \in shorter : Len(t) = n - 1},
                           x \in S }

Range(s) == { s[i] : i \in 1..Len(s) }

Distinct(s) == \A i, j \in 1..Len(s) : i # j => s[i] # s[j]

\* node lists <<1>>, <<1,2>>, ... (ids are opaque, only their order in the
\* list matters) with every assignment of types; edge lists over all ids, so
\* that an edge may name an id that is not in the node list
EdgeLists == { s \in SeqsUpTo(EdgeDefs, MaxEdges) : Distinct(s) }

DrawPipeline ==
  \E k \in 1..MaxNodes : \E ty \in [1..k -> NodeTypes] : \E es \in EdgeLists :
    /\ nodes = [i \in 1..k |-> [id |-> i, type |-> ty[i], params |-> <<>>]]
    /\ edges = es

\* node lists in which an id may occur more than once (up to renaming: the
\* first occurrences are 1, 2, ... in this order)
IdLists(k) ==
  { f \in [1..k -> NodeIds] :
      f[1] = 1 /\ \A i \in 2..k : \E j \in 1..(i - 1) : f[i] <= f[j] + 1 }

DrawNodeList ==
  \E k \in 1..MaxNodes : \E ids \in IdLists(k) : \E ty \in [1..k -> NodeTypes] :
    \E es \in EdgeLists :
      /\ nodes = [i \in 1..k |-> [id |-> ids[i], type |-> ty[i], params |-> <<>>]]
      /\ edges = es

\* ----------------------------------------------------------- graph.ts
\* nodes.map(n => n.id) put in a Set: first occurrences, in insertion order
RECURSIVE Dedupe(_)
Dedupe(s) ==
  IF s = <<>> THEN <<>>
  ELSE LET rest == Dedupe(SubSeq(s, 1, Len(s) - 1))
           x == s[Len(s)]
       IN IF x \in Range(rest) THEN rest ELSE Append(rest, x)

IdsOf(ns) == Dedupe([i \in 1..Len(ns) |-> ns[i].id])

\* topoSort lines 19-23: edges naming an unknown id are skipped
KnownEdge(ids, e) == e.source \in Range(ids) /\ e.target \in Range(ids)

KnownEdges(ns, es) == SelectSeq(es, LAMBDA e : KnownEdge(IdsOf(ns), e))

\* faulty variant: the edge is entered under its target
AdjacencyReversed(ns, es, id) ==
  LET out == SelectSeq(KnownEdges(ns, es), LAMBDA e : e.target = id)
  IN [i \in 1..Len(out) |-> out[i].source]

\* adjacency.get(id) after the loop of lines 19-23
Adjacency(ns, es, id) ==
  LET out == SelectSeq(KnownEdges(ns, es), LAMBDA e : e.source = id)
  IN [i \in 1..Len(out) |-> out[i].target]

\* inDegree after the loop of lines 19-23
InDegree(ns, es) ==
  [id \in Range(IdsOf(ns)) |->
     Len(SelectSeq(KnownEdges(ns, es), LAMBDA e : e.target = id))]

\* line 35: (inDegree.get(neighbor) || 1) - 1
NewDeg(deg) == (IF deg = 0 THEN 1 ELSE deg) - 1

RECURSIVE Relax(_, _, _)
\* lines 34-38: the for loop over the neighbours of the dequeued node
Relax(neighbors, queue, inDeg) ==
  IF neighbors = <<>> THEN [queue |-> queue, inDeg |-> inDeg]
  ELSE LET n == Head(neighbors)
           newDeg == NewDeg(inDeg[n])
       IN Relax(Tail(neighbors),
                IF newDeg = 0 THEN Append(queue, n) ELSE queue,
                [inDeg EXCEPT ![n] = newDeg])

RECURSIVE KahnLoop(_, _, _, _, _)
\* lines 31-39: while (queue.length > 0)
KahnLoop(ns, es, queue, sorted, inDeg) ==
  IF queue = <<>> THEN sorted
  ELSE LET current == Head(queue)
           r == Relax(Adjacency(ns, es, current), Tail(queue), inDeg)
       IN KahnLoop(ns, es, r.queue, Append(sorted, current), r.inDeg)

\* lines 25-28: the zero in-degree nodes, in insertion order
InitialQueue(ns, es) ==
  SelectSeq(IdsOf(ns), LAMBDA id : InDegree(ns, es)[id] = 0)

\* topoSort: [threw, sorted]; threw stands for Error('Pipeline contains a cycle')
topoSort(ns, es) ==
  LET sorted == KahnLoop(ns, es, InitialQueue(ns, es), <<>>, InDegree(ns, es))
  IN IF Len(sorted) # Cardinality(Range(IdsOf(ns)))
     THEN [threw |-> TRUE, sorted |-> <<>>]
     ELSE [threw |-> FALSE, sorted |-> sorted]

\* faulty variant: the catch is never taken
HasCycleNever(ns, es) == FALSE

hasCycle(ns, es) == topoSort(ns, es).threw

\* ValidationError {nodeId?, message}; a message is the text and the id in it
Err(id, text) == [nodeId |-> id, message |-> <<text, id>>]

MsgNoInput == <<"Pipeline needs at least one Input node", NoId>>
MsgNoOutput == <<"Pipeline needs at least one Output node", NoId>>
MsgCycle == <<"Pipeline contains a cycle", NoId>>

\* lines 80-95: the errors one node adds
NodeErrors(n, es) ==
  LET targetIds == { es[i].target : i \in 1..Len(es) }
      sourceIds == { es[i].source : i \in 1..Len(es) }
  IN (IF n.type = "input" /\ n.id \notin sourceIds
        THEN <<Err(n.id, "Input node has no outgoing connection")>> ELSE <<>>)
     \o (IF n.type = "output" /\ n.id \notin targetIds
        THEN <<Err(n.id, "Output node has no incoming connection")>> ELSE <<>>)
     \o (IF n.type \notin {"input", "output"} /\ n.id \notin targetIds
        THEN <<Err(n.id, "Node has no input connection")>> ELSE <<>>)
     \o (IF n.type \notin {"input", "output"} /\ n.id \notin sourceIds
        THEN <<Err(n.id, "Node has no output connection")>> ELSE <<>>)

RECURSIVE AllNodeErrors(_, _)
AllNodeErrors(ns, es) ==
  IF ns = <<>> THEN <<>>
  ELSE NodeErrors(Head(ns), es) \o AllNodeErrors(Tail(ns), es)

validatePipeline(ns, es) ==
  (IF \A i \in 1..Len(ns) : ns[i].type # "input"
     THEN <<[nodeId |-> NoId, message |-> MsgNoInput]>> ELSE <<>>)
  \o (IF \A i \in 1..Len(ns) : ns[i].type # "output"
     THEN <<[nodeId |-> NoId, message |-> MsgNoOutput]>> ELSE <<>>)
  \o (IF hasCycle(ns, es)
     THEN <<[nodeId |-> NoId, message |-> MsgCycle]>> ELSE <<>>)
  \o AllNodeErrors(ns, es)

getUpstreamNodes(nodeId, es) ==
  LET into == SelectSeq(es, LAMBDA e : e.target = nodeId)
  IN [i \in 1..Len(into) |-> into[i].source]

\* getDownstreamNodes, lines 106-122
Targets(es, id) ==
  LET out == SelectSeq(es, LAMBDA e : e.source = id)
  IN [i \in 1..Len(out) |-> out[i].target]

RECURSIVE DownstreamLoop(_, _, _, _)
DownstreamLoop(es, queue, visited, result) ==
  IF queue = <<>> THEN result
  ELSE LET id == Head(queue)
       IN IF id \in visited
          THEN DownstreamLoop(es, Tail(queue), visited, result)
          ELSE DownstreamLoop(es, Tail(queue) \o Targets(es, id),
                              visited \cup {id}, Append(result, id))

\* faulty variant: the targets of the visited nodes are not queued
getDirectTargets(nodeId, es) ==
  DownstreamLoop(<<>>, Targets(es, nodeId), {}, <<>>)

getDownstreamNodes(nodeId, es) ==
  DownstreamLoop(es, Targets(es, nodeId), {}, <<>>)

\* ------------------------------------------------------------- hash.ts
\* strings are sequences of character codes
RECURSIVE Digits(_, _)
\* n in base b, most significant digit first, as digit values
Digits(n, b) == IF n < b THEN <<n>> ELSE Append(Digits(n \div b, b), n % b)

\* String(n) for a non-negative integer: '0' is 48
DecimalStr(n) == LET d == Digits(n, 10) IN [i \in 1..Len(d) |-> 48 + d[i]]

RECURSIVE Join(_, _)
\* Array.prototype.join of strings
Join(strs, sep) ==
  IF strs = <<>> THEN <<>>
  ELSE IF Len(strs) = 1 THEN strs[1]
  ELSE strs[1] \o sep \o Join(Tail(strs), sep)

\* a 32-bit unsigned integer as two 16-bit halves: hi * 65536 + lo
Half == 65536

RECURSIVE Djb2(_, _)
\* lines 10-13: hash = ((hash << 5) + hash + code) >>> 0, that is
\* (hash * 33 + code) modulo 2^32
Djb2(str, hash) ==
  IF str = <<>> THEN hash
  ELSE LET low == hash.lo * 33 + Head(str)
       IN Djb2(Tail(str), [hi |-> (hash.hi * 33 + low \div Half) % Half,
                           lo |-> low % Half])

RECURSIVE Base36Digits(_)
\* the base-36 digits of hi * 65536 + lo, most significant first
Base36Digits(h) ==
  LET rest == (h.hi % 36) * Half + h.lo
      quot == [hi |-> h.hi \div 36, lo |-> rest \div 36]
  IN IF quot.hi = 0 /\ quot.lo = 0 THEN <<rest % 36>>
     ELSE Append(Base36Digits(quot), rest % 36)

\* hash.toString(36): 0-9 then a-z
Base36Hash(h) ==
  LET d == Base36Digits(h)
  IN [i \in 1..Len(d) |-> IF d[i] < 10 THEN 48 + d[i] ELSE 87 + d[i]]

\* 5381 is the initial value of hash (line 10)
simpleHash(str) == Base36Hash(Djb2(str, [hi |-> 0, lo |-> 5381]))

\* params: the object's own properties in insertion order, <<key, value>>
\* with key a string and value a number
RECURSIVE SortedKeys(_)
StrLess(a, b) ==
  \E i \in 1..(IF Len(a) < Len(b) THEN Len(a) ELSE Len(b)) + 1 :
    /\ \A j \in 1..(i - 1) : a[j] = b[j]
    /\ \/ i = Len(a) + 1 /\ i <= Len(b)
       \/ i <= Len(a) /\ i <= Len(b) /\ a[i] < b[i]

\* Object.keys(params).sort()
SortedKeys(keys) ==
  IF keys = {} THEN <<>>
  ELSE LET least == CHOOSE k \in keys : \A o \in keys \ {k} : StrLess(k, o)
       IN <<least>> \o SortedKeys(keys \ {least})

ParamKeys(params) == { params[i][1] : i \in 1..Len(params) }

\* params[key]: an object holds one value for a key
ParamValue(params, key) ==
  params[CHOOSE i \in 1..Len(params) : params[i][1] = key][2]

\* JSON.stringify(params, Object.keys(params).sort()): the members in the
\* order of the replacer array
JsonStringify(params) ==
  LET keys == SortedKeys(ParamKeys(params))
      member(k) == <<34>> \o k \o <<34, 58>> \o DecimalStr(ParamValue(params, k))
  IN <<123>> \o Join([i \in 1..Len(keys) |-> member(keys[i])], <<44>>) \o <<125>>

computeCacheKey(nodeId, params, inputRevisions) ==
  LET paramsStr == JsonStringify(params)
      inputStr == Join([i \in 1..Len(inputRevisions) |->
                          DecimalStr(inputRevisions[i])], <<44>>)
  IN <<nodeId, simpleHash(paramsStr), simpleHash(inputStr)>>

\* ------------------------------------------------- execution.ts, gpu.ts
NullFrame == [bitmap |-> -1, revision |-> -1]
NullKey == <<>>

createDefaultNodeState ==
  [status |-> "idle", progress |-> 0, error |-> "",
   output |-> NullFrame, cacheKey |-> NullKey]

\* createFrame(bitmap): revision: Date.now()
createFrame(bitmap, clock) == [bitmap |-> bitmap, revision |-> clock]

\* the bitmap given to runPipeline, and the bitmap a node produces
InputImage == 0
BitmapOf(nodeId) == nodeId

\* --------------------------------------------------------------- runner.ts
NoResult == [state |-> "pending", name |-> "", message |-> "", errors |-> <<>>,
             frame |-> NullFrame, formatOf |-> NoId]

Rejected(name, message, errs) ==
  [state |-> "rejected", name |-> name, message |-> message, errors |-> errs,
   frame |-> NullFrame, formatOf |-> NoId]

AbortError == Rejected("AbortError", "Aborted", <<>>)

Resolved(frame, outputNode) ==
  [state |-> "resolved", name |-> "", message |-> "", errors |-> <<>>,
   frame |-> frame, formatOf |-> outputNode]

StatusCall(id, status) ==
  [fn |-> "onNodeStatus", id |-> id, status |-> status, progress |-> 0]

ProgressCall(id, progress) ==
  [fn |-> "onNodeProgress", id |-> id, status |-> "", progress |-> progress]

NodeOf(id) == nodes[CHOOSE i \in 1..Len(nodes) : nodes[i].id = id]

RunIdle ==
  /\ runNo = 0
  /\ pc = "idle"
  /\ aborted = FALSE
  /\ abortedAtCall = FALSE
  /\ nodeStates = <<>>
  /\ order = <<>>
  /\ idx = 0
  /\ inputFrame = NullFrame
  /\ lastOutputFrame = NullFrame
  /\ inputs = <<>>
  /\ cacheKey = NullKey
  /\ nProgress = 0
  /\ callbacks = <<>>
  /\ invoked = <<>>
  /\ results = <<>>
  /\ now = 0

GraphIdle ==
  /\ gpc = "drawn"
  /\ sortResult = [threw |-> FALSE, sorted |-> <<>>]
  /\ errors = <<>>
  /\ downSeed = NoId
  /\ downResult = <<>>

HashIdle ==
  /\ hpc = "idle"
  /\ hNode = NoId
  /\ hParamsA = <<>>
  /\ hRevsA = <<>>
  /\ hParamsB = <<>>
  /\ hRevsB = <<>>
  /\ hKeyA = NullKey
  /\ hKeyB = NullKey

\* the specifications other than SpecGraph and SpecRun have not started
NoDevice == 0

GpuIdle ==
  /\ hasGpu = FALSE
  /\ gpuDevice = NoDevice
  /\ gpuInitialized = FALSE
  /\ gpuCalls = <<>>
  /\ gpuDevices = 0
  /\ gpuLost = {}
  /\ gpuLostPending = FALSE
  /\ gpuSeen = [device |-> NoDevice, afterLost |-> FALSE]

ExecIdle ==
  /\ exKind = ""
  /\ exGpu = FALSE
  /\ exEmpty = FALSE
  /\ exInputs = 0
  /\ exAborted = FALSE
  /\ exPath = ""
  /\ exPos = 0
  /\ exProgress = <<>>
  /\ exGpuThrew = ""
  /\ exResult = [state |-> "idle", name |-> "", by |-> ""]

NoScenario == [edited |-> NoId, rerun |-> 0]

EditorIdle ==
  /\ storeStates = <<>>
  /\ inputImages = <<>>
  /\ isRunning = FALSE
  /\ abortController = 0
  /\ abortedSignals = {}
  /\ gpuReady = FALSE
  /\ runs = <<>>
  /\ timers = 0
  /\ edNow = 0
  /\ uploads = 0
  /\ edits = 0
  /\ nextRun = <<>>
  /\ scenario = NoScenario
  /\ overlapped = FALSE

RbNoResult == [state |-> "idle", name |-> "", by |-> ""]

RbIdle ==
  /\ segmenter = ""
  /\ loadedDtype = ""
  /\ rbPc = "idle"
  /\ rbCalls = 0
  /\ rbDevice = ""
  /\ rbDtype = ""
  /\ rbAdapter = ""
  /\ rbActual = ""
  /\ rbTries = <<>>
  /\ rbResult = RbNoResult

OlIdle ==
  /\ olPc = "idle"
  /\ olImage = <<>>
  /\ olParams = <<>>
  /\ olOut = <<>>

RzIdle ==
  /\ rzPc = "idle"
  /\ rzSource = <<>>
  /\ rzParams = <<>>
  /\ rzOut = <<>>

PmIdle ==
  /\ pmInitialized = FALSE
  /\ pmRuns = <<>>

UpIdle ==
  /\ scriptLoaded = FALSE
  /\ wsGpuDevice = FALSE
  /\ wsInstance = 0
  /\ currentKey = <<>>
  /\ weightsCache = {}
  /\ upCalls = <<>>
  /\ upBuilt = 0
  /\ upSwitches = <<>>

SgIdle ==
  /\ sgSegmenter = ""
  /\ loadingPromise = 0
  /\ sgLoadedDtype = ""
  /\ sgLoads = <<>>
  /\ sgCalls = <<>>

OgIdle ==
  /\ ogDim = 0
  /\ ogPos = 0
  /\ ogLive = {}
  /\ ogAborted = FALSE
  /\ ogResult = "idle"

ChIdle ==
  /\ chWidth = 0
  /\ chHeight = 0
  /\ chImage = <<>>
  /\ chInner = FALSE
  /\ chDist = <<>>

JfIdle ==
  /\ jfWidth = 0
  /\ jfHeight = 0
  /\ jfImage = <<>>
  /\ jfPc = "idle"
  /\ jfInvert = FALSE
  /\ jfI = 0
  /\ jfStepSize = 0
  /\ jfReadTex = <<>>
  /\ jfOuterDist = <<>>
  /\ jfInnerDist = <<>>
  /\ jfOutline = {}

MoreIdle == PmIdle /\ UpIdle /\ SgIdle /\ OgIdle /\ ChIdle /\ JfIdle

RestIdle == RbIdle /\ OlIdle /\ RzIdle /\ MoreIdle

ExtIdle == HashIdle /\ GpuIdle /\ ExecIdle /\ EditorIdle /\ RestIdle

\* ------------------------------------------------------------- SpecGraph
NotRun == [threw |-> FALSE, sorted |-> <<>>]

GraphInit ==
  /\ DrawNodeList
  /\ gpc = "drawn"
  /\ sortResult = NotRun
  /\ errors = <<>>
  /\ downSeed = NoId
  /\ downResult = <<>>
  /\ RunIdle
  /\ ExtIdle

CallTopoSort ==
  /\ gpc = "drawn"
  /\ gpc' = "sorted"
  /\ sortResult' = topoSort(nodes, edges)
  /\ UNCHANGED <<nodes, edges, errors, downSeed, downResult>>
  /\ UNCHANGED runVars
  /\ UNCHANGED extVars

CallValidatePipeline ==
  /\ gpc = "sorted"
  /\ gpc' = "validated"
  /\ errors' = validatePipeline(nodes, edges)
  /\ UNCHANGED <<nodes, edges, sortResult, downSeed, downResult>>
  /\ UNCHANGED runVars
  /\ UNCHANGED extVars

CallGetDownstreamNodes ==
  \E id \in NodeIds :
    /\ gpc = "validated"
    /\ gpc' = "walked"
    /\ downSeed' = id
    /\ downResult' = getDownstreamNodes(id, edges)
    /\ UNCHANGED <<nodes, edges, sortResult, errors>>
    /\ UNCHANGED runVars
    /\ UNCHANGED extVars

GraphNext == CallTopoSort \/ CallValidatePipeline \/ CallGetDownstreamNodes

SpecGraph == GraphInit /\ [][GraphNext]_vars

\* ---- graph facts used by the claims
\* there is a path of one or more known edges from a to b
RECURSIVE ReachIn(_, _, _)
ReachIn(E, from, steps) ==
  IF steps = 0 THEN from
  ELSE ReachIn(E, from \cup { e.target : e \in { x \in E : x.source \in from } },
               steps - 1)

\* the ids reached from a through one or more of the edges E
ReachedFrom(E, a) ==
  ReachIn(E, { e.target : e \in { x \in E : x.source = a } }, Cardinality(E))

Reaches(ns, es, a, b) == b \in ReachedFrom(Range(KnownEdges(ns, es)), a)

Cyclic(ns, es) ==
  LET E == Range(KnownEdges(ns, es))
  IN \E a \in Range(IdsOf(ns)) : a \in ReachedFrom(E, a)

IndexOf(s, x) == CHOOSE i \in 1..Len(s) : s[i] = x

\* the ids at the end of a walk of exactly k of the edges E that starts at a
RECURSIVE WalkEnds(_, _, _)
WalkEnds(E, a, k) ==
  IF k = 0 THEN {a}
  ELSE { e.target : e \in { x \in E : x.source \in WalkEnds(E, a, k - 1) } }

\* the length of the shortest walk of one or more edges from a to b
Distance(E, a, b) ==
  CHOOSE k \in 1..(Cardinality(E) + 1) :
    /\ b \in WalkEnds(E, a, k)
    /\ \A j \in 1..(k - 1) : b \notin WalkEnds(E, a, j)

\* what C28 says of the order and of the members of the result
DownstreamAsClaimed ==
  LET E == Range(edges)
  IN /\ Distinct(downResult)
     /\ Range(downResult) = ReachedFrom(E, downSeed)
     /\ \A i, j \in 1..Len(downResult) :
          i < j => Distance(E, downSeed, downResult[i])
                     <= Distance(E, downSeed, downResult[j])

\* C28 as stated: getDownstreamNodes returns, in breadth-first order and
\* without duplicates, exactly the nodes reachable from nodeId through one or
\* more edges, and never nodeId itself
C28_DownstreamExcludesSeed ==
  gpc = "walked" =>
     DownstreamAsClaimed /\ downSeed \notin Range(downResult)

\* C28 amended: the same, with nodeId itself in the result exactly when it
\* lies on a cycle of the edges (so never for the edges of a DAG)
C28_DownstreamIsReachable ==
  gpc = "walked" =>
     /\ DownstreamAsClaimed
     /\ downSeed \in Range(downResult)
          <=> \E k \in 1..Len(edges) : downSeed \in WalkEnds(Range(edges), downSeed, k)

C28_Witness ==
  /\ gpc = "walked"
  /\ Len(downResult) = 2
  /\ downSeed \notin Range(downResult)
  /\ Distance(Range(edges), downSeed, downResult[2]) = 2

\* C2: on a pipeline without a cycle topoSort returns every node id exactly
\* once, and the source of every edge between existing nodes before its target
C2_TopoSortOrder ==
  (gpc # "drawn" /\ ~Cyclic(nodes, edges)) =>
     /\ ~sortResult.threw
     /\ Distinct(sortResult.sorted)
     /\ Range(sortResult.sorted) = Range(IdsOf(nodes))
     /\ \A e \in Range(KnownEdges(nodes, edges)) :
          IndexOf(sortResult.sorted, e.source) < IndexOf(sortResult.sorted, e.target)

C2_Witness ==
  /\ gpc = "sorted"
  /\ ~Cyclic(nodes, edges)
  /\ Len(sortResult.sorted) = 3
  /\ Len(KnownEdges(nodes, edges)) >= 2
  /\ sortResult.sorted # IdsOf(nodes)

\* C4: on a pipeline whose edges contain a cycle (a self-loop too) topoSort
\* throws and validatePipeline reports "Pipeline contains a cycle"
C4_CycleDetected ==
  Cyclic(nodes, edges) =>
     /\ (gpc # "drawn" => sortResult.threw)
     /\ (gpc = "validated" => \E i \in 1..Len(errors) : errors[i].message = MsgCycle)

C4_Witness ==
  /\ gpc = "validated"
  /\ \E a, b \in Range(IdsOf(nodes)) :
       a # b /\ Reaches(nodes, edges, a, b) /\ Reaches(nodes, edges, b, a)
  /\ sortResult.threw
  /\ sortResult.sorted = <<>>

\* --------------------------------------------------------------- SpecRun
ProgressValues == {5, 10}   \* progress in tenths: 0.5, 1

Statuses == {"idle", "pending", "running", "done", "error", "cached"}

\* Object.assign(state, update)
Assign(state, update) ==
  [f \in DOMAIN state |-> IF f \in DOMAIN update THEN update[f] ELSE state[f]]

\* lines 66-69
updateState(states, nodeId, update) ==
  IF nodeId \in DOMAIN states
  THEN [states EXCEPT ![nodeId] = Assign(@, update)]
  ELSE states

\* lines 112-123: the outputs of the upstream nodes that have one
GatherInputs(states, nodeId) ==
  LET ups == getUpstreamNodes(nodeId, edges)
      outs == [i \in 1..Len(ups) |->
                 IF ups[i] \in DOMAIN states THEN states[ups[i]].output
                 ELSE NullFrame]
  IN SelectSeq(outs, LAMBDA f : f # NullFrame)

Revisions(frames) == [i \in 1..Len(frames) |-> frames[i].revision]

\* faulty variant: only the first message is kept
FirstErrorOnly(errs) ==
  Rejected("Error", "Pipeline validation failed", <<errs[1].message>>)

\* line 54: the Error built from the validation errors
ValidationFailure(errs) ==
  Rejected("Error", "Pipeline validation failed",
           [i \in 1..Len(errs) |-> errs[i].message])

\* faulty variant: the id the executor passes is forwarded
RawCtxId(rawId, nodeId) == rawId

\* lines 155-161: the per-node context ignores the id the executor passes
NodeCtxId(rawId, nodeId) == nodeId

\* faulty variant: the check between nodes is missing
NeverAborted(signalAborted) == FALSE

\* line 104 (and the loop condition): the check made between nodes
AbortedBetweenNodes(signalAborted) == signalAborted

\* faulty variant: the check of lastOutputFrame is missing
NeverEmpty(frame) == FALSE

\* line 189: if (!lastOutputFrame)
ProducedNoOutput(frame) == frame = NullFrame

\* line 178: e.name === 'AbortError' || abortSignal.aborted
IsAbort(errorName, signalAborted) == errorName = "AbortError" \/ signalAborted

\* line 194: nodes.find(n => n.type === 'output')
FirstOutputNode ==
  LET outs == SelectSeq(nodes, LAMBDA n : n.type = "output")
  IN IF outs = <<>> THEN NoId ELSE outs[1].id

\* the part of the state the body of the for loop writes
Scope == [nodeStates |-> nodeStates, callbacks |-> callbacks,
          lastOutputFrame |-> lastOutputFrame]

\* lines 129-131
RecordCached(st, nodeId, nodeType) ==
  [nodeStates |-> updateState(st.nodeStates, nodeId, [status |-> "cached"]),
   callbacks |-> Append(st.callbacks, StatusCall(nodeId, "cached")),
   lastOutputFrame |-> IF nodeType = "output" THEN st.nodeStates[nodeId].output
                       ELSE st.lastOutputFrame]

\* lines 136-137
SetRunning(st, nodeId) ==
  [nodeStates |-> updateState(st.nodeStates, nodeId,
                              [status |-> "running", progress |-> 0]),
   callbacks |-> Append(st.callbacks, StatusCall(nodeId, "running")),
   lastOutputFrame |-> st.lastOutputFrame]

\* faulty variant: done is recorded but not reported
RecordDoneSilent(st, nodeId, nodeType, output, key) ==
  [nodeStates |-> updateState(st.nodeStates, nodeId,
                              [status |-> "done", progress |-> 10,
                               output |-> output, cacheKey |-> key,
                               error |-> ""]),
   callbacks |-> st.callbacks,
   lastOutputFrame |-> IF nodeType = "output" THEN output
                       ELSE st.lastOutputFrame]

\* lines 165-176
RecordDone(st, nodeId, nodeType, output, key) ==
  [nodeStates |-> updateState(st.nodeStates, nodeId,
                              [status |-> "done", progress |-> 10,
                               output |-> output, cacheKey |-> key,
                               error |-> ""]),
   callbacks |-> Append(st.callbacks, StatusCall(nodeId, "done")),
   lastOutputFrame |-> IF nodeType = "output" THEN output
                       ELSE st.lastOutputFrame]

\* faulty variant: the message is not recorded
RecordErrorNoMessage(st, nodeId, message) ==
  [nodeStates |-> updateState(st.nodeStates, nodeId, [status |-> "error"]),
   callbacks |-> Append(st.callbacks, StatusCall(nodeId, "error")),
   lastOutputFrame |-> st.lastOutputFrame]

\* lines 181-185
RecordError(st, nodeId, message) ==
  [nodeStates |-> updateState(st.nodeStates, nodeId,
                              [status |-> "error", error |-> message]),
   callbacks |-> Append(st.callbacks, StatusCall(nodeId, "error")),
   lastOutputFrame |-> st.lastOutputFrame]

Write(st) ==
  /\ nodeStates' = st.nodeStates
  /\ callbacks' = st.callbacks
  /\ lastOutputFrame' = st.lastOutputFrame

Settle(result) ==
  /\ pc' = "settled"
  /\ results' = Append(results, result)

CurrentId == order[idx]

\* a pipeline with two output nodes that are given different frames:
\* input -> proc -> output 4 and input -> output 3
TwoOutputPipeline ==
  /\ nodes = <<[id |-> 1, type |-> "input", params |-> <<>>],
               [id |-> 2, type |-> "proc", params |-> <<>>],
               [id |-> 3, type |-> "output", params |-> <<>>],
               [id |-> 4, type |-> "output", params |-> <<>>]>>
  /\ edges = <<[source |-> 1, target |-> 2], [source |-> 1, target |-> 3],
               [source |-> 2, target |-> 4]>>

RunInit ==
  /\ DrawPipeline \/ TwoOutputPipeline
  /\ GraphIdle
  /\ RunIdle
  /\ ExtIdle

\* runPipeline is called: lines 48-100, up to the for loop. The signal is
\* read (line 58) only once the validation has passed.
CallRunPipeline ==
  /\ pc \in {"idle", "settled"}
  /\ runNo < MaxRuns
  /\ runNo' = runNo + 1
  /\ callbacks' = <<>>
  /\ invoked' = <<>>
  /\ inputs' = <<>>
  /\ cacheKey' = NullKey
  /\ nProgress' = 0
  /\ LET errs == validatePipeline(nodes, edges)
         sort == topoSort(nodes, edges)
     IN IF errs # <<>>
        THEN /\ Settle(ValidationFailure(errs))
             /\ UNCHANGED <<aborted, abortedAtCall, nodeStates, order, idx,
                            inputFrame, lastOutputFrame>>
        ELSE /\ \E signalAborted \in BOOLEAN :
                  /\ aborted' = signalAborted
                  /\ abortedAtCall' = signalAborted
             /\ nodeStates' = [id \in Range(IdsOf(nodes)) |-> createDefaultNodeState]
             /\ IF sort.threw
                THEN /\ Settle(Rejected("Error", "Pipeline contains a cycle", <<>>))
                     /\ UNCHANGED <<order, idx, inputFrame, lastOutputFrame>>
                ELSE /\ order' = sort.sorted
                     /\ idx' = 1
                     /\ inputFrame' = createFrame(InputImage, now)
                     /\ lastOutputFrame' = NullFrame
                     /\ pc' = "loop"
                     /\ UNCHANGED results
  /\ UNCHANGED <<nodes, edges, now>>
  /\ UNCHANGED graphVars
  /\ UNCHANGED extVars

\* line 104: if (abortSignal.aborted) throw AbortError
LoopAbort ==
  /\ pc = "loop"
  /\ idx <= Len(order)
  /\ AbortedBetweenNodes(aborted)
  /\ Settle(AbortError)
  /\ UNCHANGED <<runNo, aborted, abortedAtCall, nodeStates, order, idx,
                 inputFrame, lastOutputFrame, inputs, cacheKey, nProgress,
                 callbacks, invoked, now>>
  /\ UNCHANGED <<nodes, edges>>
  /\ UNCHANGED graphVars
  /\ UNCHANGED extVars

\* lines 106-163: one node, up to the point where it awaits or is finished
ProcessNode ==
  /\ pc = "loop"
  /\ idx <= Len(order)
  /\ ~AbortedBetweenNodes(aborted)
  /\ LET nodeId == CurrentId
         nodeType == NodeOf(nodeId).type
         ins == GatherInputs(nodeStates, nodeId)
         key == computeCacheKey(nodeId, NodeOf(nodeId).params, Revisions(ins))
         existingState == nodeStates[nodeId]
         running == SetRunning(Scope, nodeId)
     IN /\ inputs' = ins
        /\ cacheKey' = key
        /\ nProgress' = 0
        /\ IF existingState.cacheKey = key /\ existingState.output # NullFrame
           THEN /\ Write(RecordCached(Scope, nodeId, nodeType))
                /\ idx' = idx + 1
                /\ UNCHANGED <<pc, invoked>>
           ELSE IF nodeType = "input"
           THEN /\ Write(running)
                /\ pc' = "await"
                /\ UNCHANGED <<idx, invoked>>
           ELSE IF nodeType = "output"
           THEN /\ IF ins = <<>>
                   THEN Write(RecordError(running, nodeId, "No input to output node"))
                   ELSE Write(RecordDone(running, nodeId, nodeType, ins[1], key))
                /\ idx' = idx + 1
                /\ UNCHANGED <<pc, invoked>>
           ELSE IF ins = <<>>
           THEN /\ Write(RecordError(running, nodeId, "No input image"))
                /\ idx' = idx + 1
                /\ UNCHANGED <<pc, invoked>>
           ELSE /\ Write(running)
                /\ pc' = "await"
                /\ invoked' = Append(invoked, [id |-> nodeId, nInputs |-> Len(ins)])
                /\ UNCHANGED idx
  /\ UNCHANGED <<runNo, aborted, abortedAtCall, order, inputFrame, results, now>>
  /\ UNCHANGED <<nodes, edges>>
  /\ UNCHANGED graphVars
  /\ UNCHANGED extVars

\* lines 75-78, 157: the executor calls ctx.onProgress('', progress)
ExecutorProgress ==
  /\ pc = "await"
  /\ NodeOf(CurrentId).type # "input"
  /\ nProgress < MaxProgress
  /\ \E progress \in ProgressValues :
       LET id == NodeCtxId(NoId, CurrentId)
       IN /\ nodeStates' = updateState(nodeStates, id, [progress |-> progress])
          /\ callbacks' = Append(callbacks, ProgressCall(id, progress))
  /\ nProgress' = nProgress + 1
  /\ UNCHANGED <<runNo, pc, aborted, abortedAtCall, order, idx, inputFrame,
                 lastOutputFrame, inputs, cacheKey, invoked, results, now>>
  /\ UNCHANGED <<nodes, edges>>
  /\ UNCHANGED graphVars
  /\ UNCHANGED extVars

\* lines 145-146, 162-176: resizeBitmap or the executor resolves with a frame
AwaitResolves ==
  /\ pc = "await"
  /\ Write(RecordDone(Scope, CurrentId, NodeOf(CurrentId).type,
                      createFrame(BitmapOf(CurrentId), now), cacheKey))
  /\ idx' = idx + 1
  /\ pc' = "loop"
  /\ UNCHANGED <<runNo, aborted, abortedAtCall, order, inputFrame, inputs,
                 cacheKey, nProgress, invoked, results, now>>
  /\ UNCHANGED <<nodes, edges>>
  /\ UNCHANGED graphVars
  /\ UNCHANGED extVars

\* lines 177-186: resizeBitmap or the executor rejects with an Error
AwaitRejects ==
  /\ pc = "await"
  /\ IF IsAbort("Error", aborted)
     THEN /\ Settle(AbortError)
          /\ UNCHANGED <<nodeStates, callbacks, lastOutputFrame, idx>>
     ELSE /\ Write(RecordError(Scope, CurrentId, "executor failed"))
          /\ idx' = idx + 1
          /\ pc' = "loop"
          /\ UNCHANGED results
  /\ UNCHANGED <<runNo, aborted, abortedAtCall, order, inputFrame, inputs,
                 cacheKey, nProgress, invoked, now>>
  /\ UNCHANGED <<nodes, edges>>
  /\ UNCHANGED graphVars
  /\ UNCHANGED extVars

\* the executor's own abort check throws AbortError (remove-bg line 106,
\* upscale line 27, outline line 153); lines 177-180
ExecutorAborts ==
  /\ pc = "await"
  /\ NodeOf(CurrentId).type # "input"
  /\ aborted
  /\ IsAbort("AbortError", aborted)
  /\ Settle(AbortError)
  /\ UNCHANGED <<runNo, aborted, abortedAtCall, nodeStates, order, idx,
                 inputFrame, lastOutputFrame, inputs, cacheKey, nProgress,
                 callbacks, invoked, now>>
  /\ UNCHANGED <<nodes, edges>>
  /\ UNCHANGED graphVars
  /\ UNCHANGED extVars

\* lines 189-198: after the loop
AfterLoop ==
  /\ pc = "loop"
  /\ idx > Len(order)
  /\ IF ProducedNoOutput(lastOutputFrame)
     THEN Settle(Rejected("Error", "Pipeline produced no output", <<>>))
     ELSE pc' = "encode" /\ UNCHANGED results
  /\ UNCHANGED <<runNo, aborted, abortedAtCall, nodeStates, order, idx,
                 inputFrame, lastOutputFrame, inputs, cacheKey, nProgress,
                 callbacks, invoked, now>>
  /\ UNCHANGED <<nodes, edges>>
  /\ UNCHANGED graphVars
  /\ UNCHANGED extVars

\* lines 198-212: the import and bitmapToBlob resolve, runPipeline returns
EncodeResolves ==
  /\ pc = "encode"
  /\ Settle(Resolved(lastOutputFrame, FirstOutputNode))
  /\ UNCHANGED <<runNo, aborted, abortedAtCall, nodeStates, order, idx,
                 inputFrame, lastOutputFrame, inputs, cacheKey, nProgress,
                 callbacks, invoked, now>>
  /\ UNCHANGED <<nodes, edges>>
  /\ UNCHANGED graphVars
  /\ UNCHANGED extVars

\* the caller aborts the signal while runPipeline is suspended
Abort ==
  /\ pc \in {"await", "encode"}
  /\ ~aborted
  /\ aborted' = TRUE
  /\ UNCHANGED <<runNo, pc, abortedAtCall, nodeStates, order, idx, inputFrame,
                 lastOutputFrame, inputs, cacheKey, nProgress, callbacks,
                 invoked, results, now>>
  /\ UNCHANGED <<nodes, edges>>
  /\ UNCHANGED graphVars
  /\ UNCHANGED extVars

\* time passes while runPipeline is suspended or between two calls
Tick ==
  /\ pc \in {"await", "encode"} \/ (pc = "settled" /\ runNo < MaxRuns)
  /\ now < MaxClock
  /\ now' = now + 1
  /\ UNCHANGED <<runNo, pc, aborted, abortedAtCall, nodeStates, order, idx,
                 inputFrame, lastOutputFrame, inputs, cacheKey, nProgress,
                 callbacks, invoked, results>>
  /\ UNCHANGED <<nodes, edges>>
  /\ UNCHANGED graphVars
  /\ UNCHANGED extVars

RunNext ==
  \/ CallRunPipeline
  \/ LoopAbort
  \/ ProcessNode
  \/ ExecutorProgress
  \/ AwaitResolves
  \/ AwaitRejects
  \/ ExecutorAborts
  \/ AfterLoop
  \/ EncodeResolves
  \/ Abort
  \/ Tick

SpecRun == RunInit /\ [][RunNext]_vars

\* ---- facts about a run used by the claims
Valid == validatePipeline(nodes, edges) = <<>>

Settled == pc = "settled" /\ runNo >= 1

Result == results[runNo]

TypeOf(id) == NodeOf(id).type

StatusCalls(id) == SelectSeq(callbacks, LAMBDA c : c.fn = "onNodeStatus" /\ c.id = id)

InvokedIds == { invoked[i].id : i \in 1..Len(invoked) }

\* C1: in one run at most one node is running at any moment, the nodes are
\* taken in a topological order, and every callback of a node earlier in the
\* order is delivered before any callback of a later node
C1_Sequential ==
  /\ Cardinality({ id \in DOMAIN nodeStates : nodeStates[id].status = "running" }) <= 1
  /\ \A i \in 1..Len(callbacks) : callbacks[i].id \in Range(order)
  /\ \A i, j \in 1..Len(callbacks) :
       i < j => IndexOf(order, callbacks[i].id) <= IndexOf(order, callbacks[j].id)
  /\ \A e \in Range(KnownEdges(nodes, edges)) :
       order # <<>> => IndexOf(order, e.source) < IndexOf(order, e.target)

C1_Witness ==
  /\ Settled
  /\ Result.state = "resolved"
  /\ Len(order) = 3
  /\ \E i, j, k \in 1..Len(callbacks) :
       /\ i < j /\ j < k
       /\ callbacks[i].fn = "onNodeStatus" /\ callbacks[i].status = "done"
       /\ callbacks[j].fn = "onNodeProgress"
       /\ callbacks[k].fn = "onNodeStatus" /\ callbacks[k].status = "running"
       /\ callbacks[i].id # callbacks[j].id /\ callbacks[j].id # callbacks[k].id

\* C3: when validatePipeline returns errors, run rejects before any
\* execution: no node state, no callback, no executor, and the error carries
\* every validation message (the cycle message for a pipeline with a cycle)
C3_ValidationRejects ==
  (runNo >= 1 /\ validatePipeline(nodes, edges) # <<>>) =>
     /\ pc = "settled"
     /\ DOMAIN nodeStates = {}
     /\ callbacks = <<>>
     /\ invoked = <<>>
     /\ Result.state = "rejected"
     /\ Len(Result.errors) = Len(validatePipeline(nodes, edges))
     /\ \A i \in 1..Len(Result.errors) :
          Result.errors[i] = validatePipeline(nodes, edges)[i].message
     /\ Cyclic(nodes, edges) => \E i \in 1..Len(Result.errors) : Result.errors[i] = MsgCycle

C3_Witness ==
  /\ Settled
  /\ Result.state = "rejected"
  /\ Len(Result.errors) >= 2
  /\ \E i \in 1..Len(Result.errors) : Result.errors[i] = MsgCycle
  /\ \E a, b \in Range(IdsOf(nodes)) :
       a # b /\ Reaches(nodes, edges, a, b) /\ Reaches(nodes, edges, b, a)

\* C5: an error thrown while a node executes (the signal not aborted) is
\* recorded on that node and the run goes on: a run that does not end in
\* AbortError has processed every node, a processing node without any
\* upstream output is marked error "No input image" and its executor is not
\* invoked, and no executor is ever invoked with an empty inputs list
C5_ErrorsDoNotStopRun ==
  (runNo >= 1 /\ Valid) =>
     /\ \A i \in 1..Len(invoked) : invoked[i].nInputs >= 1
     /\ \A k \in 1..Len(order) :
          LET id == order[k]
              calls == StatusCalls(id)
          IN /\ nodeStates[id].status = "error" =>
                  /\ nodeStates[id].error # ""
                  /\ calls # <<>> /\ calls[Len(calls)].status = "error"
             /\ (nodeStates[id].status = "error" /\ id \in InvokedIds) =>
                  nodeStates[id].error = "executor failed"
             /\ (k < idx /\ TypeOf(id) = "proc"
                   /\ GatherInputs(nodeStates, id) = <<>>) =>
                  /\ nodeStates[id].status = "error"
                  /\ nodeStates[id].error = "No input image"
                  /\ id \notin InvokedIds
     /\ (pc = "settled" /\ Result.name # "AbortError") =>
          /\ idx = Len(order) + 1
          /\ \A id \in DOMAIN nodeStates :
               nodeStates[id].status \in {"done", "error", "cached"}

C5_Witness ==
  /\ Settled
  /\ Len(order) = 3
  /\ nodeStates[order[1]].status = "error"
  /\ nodeStates[order[1]].error = "executor failed"
  /\ TypeOf(order[2]) = "proc"
  /\ nodeStates[order[2]].error = "No input image"
  /\ nodeStates[order[3]].status = "error"
  /\ invoked = <<>>

\* C6: run resolves only when an output node reached done or cached in this
\* run, with that node's frame; when no output node did, run rejects with
\* "Pipeline produced no output"
C6_ResolveOnlyWithOutput ==
  Settled =>
     LET outputsDone == { id \in DOMAIN nodeStates :
                            /\ TypeOf(id) = "output"
                            /\ nodeStates[id].status \in {"done", "cached"} }
     IN /\ Result.state = "resolved" =>
             /\ Result.frame # NullFrame
             /\ \E id \in outputsDone : nodeStates[id].output = Result.frame
        /\ (Valid /\ outputsDone = {} /\ Result.name # "AbortError") =>
             /\ Result.state = "rejected"
             /\ Result.message = "Pipeline produced no output"

C6_Witness ==
  /\ Settled
  /\ Result.message = "Pipeline produced no output"
  /\ \E id \in DOMAIN nodeStates : nodeStates[id].status = "done"
  /\ \E id \in DOMAIN nodeStates :
       TypeOf(id) = "output" /\ nodeStates[id].status = "error"

\* C7 (as claimed): once the signal is aborted after run has started, run
\* rejects with AbortError and never resolves
C7_AbortAlwaysRejects ==
  (Settled /\ aborted /\ ~abortedAtCall) => Result.name = "AbortError"

\* C8: with the signal aborted before the first node starts, run on a valid
\* pipeline rejects with AbortError, no executor is invoked, and no callback
\* other than running for the first node is delivered
C8_AbortedBeforeStart ==
  (runNo >= 1 /\ Valid /\ abortedAtCall) =>
     /\ invoked = <<>>
     /\ callbacks \in {<<>>, <<StatusCall(order[1], "running")>>}
     /\ \/ pc = "loop" /\ idx = 1
        \/ pc = "settled" /\ Result = AbortError

C8_Witness ==
  /\ Settled
  /\ Valid
  /\ abortedAtCall
  /\ Result = AbortError
  /\ \A id \in DOMAIN nodeStates : nodeStates[id].status = "idle"

\* C9 (as claimed): when a run ends in AbortError no node is left running
C9_NoRunningAfterAbort ==
  (Settled /\ Result.name = "AbortError") =>
     \A id \in DOMAIN nodeStates :
        /\ nodeStates[id].status # "running"
        /\ LET calls == StatusCalls(id)
           IN calls # <<>> => calls[Len(calls)].status # "running"

\* C10 (as claimed): a second run of the same pipeline on the same image
\* reports cached for every non-input node and invokes no executor
C10_SecondRunCached ==
  (runNo = 2 /\ results[1].state = "resolved") =>
     /\ invoked = <<>>
     /\ \A i \in 1..Len(callbacks) :
          (callbacks[i].fn = "onNodeStatus" /\ TypeOf(callbacks[i].id) # "input")
             => callbacks[i].status = "cached"

\* the frames runPipeline has produced so far, in production order: the
\* input frame of line 97, then the outputs of the nodes recorded done that
\* made a frame of their own (an output node passes its input on)
ProducedFrames ==
  LET made == SelectSeq(order, LAMBDA id :
                 nodeStates[id].status = "done" /\ NodeOf(id).type # "output")
  IN <<inputFrame>> \o [k \in 1..Len(made) |-> nodeStates[made[k]].output]

\* C14 (as claimed): of two frames produced at different moments the later
\* one carries the strictly greater revision
C14_RevisionsStrictlyIncrease ==
  (pc # "idle" /\ order # <<>>) =>
     \A i, j \in 1..Len(ProducedFrames) :
        i < j => ProducedFrames[i].revision < ProducedFrames[j].revision

\* the statuses onNodeStatus has reported for a node, in order
ReportedStatuses(id) ==
  LET calls == StatusCalls(id) IN [k \in 1..Len(calls) |-> calls[k].status]

\* C15: within a run, the onNodeStatus calls a step of the scheduler adds for
\* a node are exactly the changes of that node's status, in order: each call
\* carries a status different from the one before it, the last one is the
\* node's new status, and a step that leaves the status alone adds no call
C15_StatusChangesReported ==
  [][ (runNo' = runNo) =>
        \A id \in DOMAIN nodeStates :
           LET before == ReportedStatuses(id)
               after == ReportedStatuses(id)'
               chain == <<nodeStates[id].status>>
                          \o SubSeq(after, Len(before) + 1, Len(after))
           IN /\ Len(after) >= Len(before)
              /\ SubSeq(after, 1, Len(before)) = before
              /\ \A k \in 1..(Len(chain) - 1) : chain[k] # chain[k + 1]
              /\ chain[Len(chain)] = nodeStates'[id].status ]_vars

C15_Witness ==
  /\ Settled
  /\ \E a, b \in DOMAIN nodeStates :
       /\ ReportedStatuses(a) = <<"running", "done">>
       /\ nodeStates[a].status = "done"
       /\ ReportedStatuses(b) = <<"running", "error">>
       /\ nodeStates[b].status = "error"

\* the status changes of the lifecycle idle -> pending -> running ->
\* (done | error) and idle -> cached
ClaimedTransitions ==
  {<<"idle", "pending">>, <<"pending", "running">>, <<"running", "done">>,
   <<"running", "error">>, <<"idle", "cached">>}

\* C16 (as claimed): within one run every change of a node's status is one
\* of idle -> pending, pending -> running, running -> done, running -> error
\* and idle -> cached
C16_LifecycleAsClaimed ==
  [][ (runNo' = runNo) =>
        \A id \in DOMAIN nodeStates :
           LET before == ReportedStatuses(id)
               after == ReportedStatuses(id)'
               chain == <<nodeStates[id].status>>
                          \o SubSeq(after, Len(before) + 1, Len(after))
           IN \A k \in 1..(Len(chain) - 1) :
                 <<chain[k], chain[k + 1]>> \in ClaimedTransitions ]_vars

\* -------------------------------------------------------------- SpecHash
\* computeCacheKey applied twice, to drawn (params, inputRevisions)
MaxParams == 2    \* own properties of a params object
MaxRevs == 2      \* upstream revisions of a node

\* the keys "a", "b" and the values of params
HashKeys == {<<97>>, <<98>>}
HashValues == {4, 8}

\* revisions: numbers as Date.now() gives them (their last eight digits)
HashRevisions == {1, 10050505, 51107020}

\* params objects with their properties in every insertion order
ParamObjects ==
  { s \in SeqsUpTo(HashKeys \X HashValues, MaxParams) :
      \A i, j \in 1..Len(s) : i # j => s[i][1] # s[j][1] }

RevisionLists == SeqsUpTo(HashRevisions, MaxRevs)

HashInit ==
  /\ hpc = "drawn"
  /\ hNode \in {1}
  /\ hParamsA \in ParamObjects
  /\ hRevsA \in RevisionLists
  /\ hParamsB \in ParamObjects
  /\ hRevsB \in RevisionLists
  /\ hKeyA = NullKey
  /\ hKeyB = NullKey
  /\ nodes = <<>>
  /\ edges = <<>>
  /\ GraphIdle
  /\ RunIdle
  /\ GpuIdle
  /\ ExecIdle
  /\ EditorIdle
  /\ RestIdle

CallComputeCacheKey ==
  /\ hpc = "drawn"
  /\ hpc' = "hashed"
  /\ hKeyA' = computeCacheKey(hNode, hParamsA, hRevsA)
  /\ hKeyB' = computeCacheKey(hNode, hParamsB, hRevsB)
  /\ UNCHANGED <<hNode, hParamsA, hRevsA, hParamsB, hRevsB>>
  /\ UNCHANGED <<nodes, edges>>
  /\ UNCHANGED graphVars
  /\ UNCHANGED runVars
  /\ UNCHANGED gpuVars
  /\ UNCHANGED execVars
  /\ UNCHANGED editorVars
  /\ UNCHANGED restVars

HashNext == CallComputeCacheKey

SpecHash == HashInit /\ [][HashNext]_vars

\* two params objects are equal as maps
SameMap(p, q) ==
  /\ ParamKeys(p) = ParamKeys(q)
  /\ \A k \in ParamKeys(p) : ParamValue(p, k) = ParamValue(q, k)

\* C13 (as claimed): for a fixed node id the two keys are equal if and only
\* if the params are equal as maps and the revisions equal as sequences
C13_KeyEqualIffInputsEqual ==
  hpc = "hashed" =>
     ((hKeyA = hKeyB) <=> (SameMap(hParamsA, hParamsB) /\ hRevsA = hRevsB))

\* --------------------------------------------------------------- SpecGpu
\* gpu.ts: initGpu, getGpuDevice and the lost handler of a device
MaxGpuCalls == 3    \* calls of initGpu
MaxGpuDevices == 2  \* devices requestDevice gives out

\* a call of initGpu: where it is, what it returned, whether it went on to
\* request a device, and whether it is the first call after a lost event
GpuCall(at, returned, requested, afterLost) ==
  [at |-> at, returned |-> returned, requested |-> requested,
   afterLost |-> afterLost]

GpuInit ==
  /\ hasGpu \in BOOLEAN
  /\ gpuDevice = NoDevice
  /\ gpuInitialized = FALSE
  /\ gpuCalls = <<>>
  /\ gpuDevices = 0
  /\ gpuLost = {}
  /\ gpuLostPending = FALSE
  /\ gpuSeen = [device |-> NoDevice, afterLost |-> FALSE]
  /\ nodes = <<>>
  /\ edges = <<>>
  /\ GraphIdle
  /\ RunIdle
  /\ HashIdle
  /\ ExecIdle
  /\ EditorIdle
  /\ RestIdle

\* lines 20-24: the handler of device.lost sets gpuInitialized = false
LostClearsFlag(initialized) == FALSE

\* lines 26-32: the catch block and the end of initGpu after a failure
InitFailed(c) ==
  /\ gpuDevice' = NoDevice
  /\ gpuInitialized' = TRUE
  /\ gpuCalls' = [gpuCalls EXCEPT ![c] =
                    GpuCall("returned", NoDevice, @.requested, @.afterLost)]

\* initGpu is called: lines 9-15, up to the first await
InitGpuCalled ==
  /\ Len(gpuCalls) < MaxGpuCalls
  /\ gpuLostPending' = FALSE
  /\ IF gpuInitialized
     THEN /\ gpuCalls' = Append(gpuCalls,
                GpuCall("returned", gpuDevice, FALSE, gpuLostPending))
          /\ UNCHANGED <<gpuDevice, gpuInitialized>>
     ELSE IF ~hasGpu
     THEN /\ gpuCalls' = Append(gpuCalls,
                GpuCall("returned", NoDevice, FALSE, gpuLostPending))
          /\ gpuDevice' = NoDevice
          /\ gpuInitialized' = TRUE
     ELSE /\ gpuCalls' = Append(gpuCalls,
                GpuCall("adapter", NoDevice, TRUE, gpuLostPending))
          /\ UNCHANGED <<gpuDevice, gpuInitialized>>
  /\ UNCHANGED <<hasGpu, gpuDevices, gpuLost, gpuSeen>>

\* initGpu is called by a caller of its own
CallInitGpu ==
  /\ InitGpuCalled
  /\ UNCHANGED <<nodes, edges>>
  /\ UNCHANGED <<graphVars, runVars, hashVars, execVars, editorVars, restVars>>

\* line 15: requestAdapter resolves with an adapter; line 19 awaits
AdapterFound ==
  \E c \in 1..Len(gpuCalls) :
    /\ gpuCalls[c].at = "adapter"
    /\ gpuCalls' = [gpuCalls EXCEPT ![c].at = "device"]
    /\ UNCHANGED <<hasGpu, gpuDevice, gpuInitialized, gpuDevices, gpuLost,
                   gpuLostPending, gpuSeen>>
    /\ UNCHANGED <<nodes, edges>>
    /\ UNCHANGED <<graphVars, runVars, hashVars, execVars, editorVars, restVars>>

\* lines 15-18: requestAdapter resolves with null (or rejects)
AdapterMissing ==
  \E c \in 1..Len(gpuCalls) :
    /\ gpuCalls[c].at = "adapter"
    /\ InitFailed(c)
    /\ UNCHANGED <<hasGpu, gpuDevices, gpuLost, gpuLostPending, gpuSeen>>
    /\ UNCHANGED <<nodes, edges>>
    /\ UNCHANGED <<graphVars, runVars, hashVars, execVars, editorVars, restVars>>

\* lines 19-25, 31-32: requestDevice resolves, the lost handler is attached
DeviceGranted ==
  \E c \in 1..Len(gpuCalls) :
    /\ gpuCalls[c].at = "device"
    /\ gpuDevices < MaxGpuDevices
    /\ gpuDevices' = gpuDevices + 1
    /\ gpuDevice' = gpuDevices + 1
    /\ gpuInitialized' = TRUE
    /\ gpuCalls' = [gpuCalls EXCEPT ![c] =
                      GpuCall("returned", gpuDevices + 1, TRUE, @.afterLost)]
    /\ UNCHANGED <<hasGpu, gpuLost, gpuLostPending, gpuSeen>>
    /\ UNCHANGED <<nodes, edges>>
    /\ UNCHANGED <<graphVars, runVars, hashVars, execVars, editorVars, restVars>>

\* line 19: requestDevice rejects
DeviceRefused ==
  \E c \in 1..Len(gpuCalls) :
    /\ gpuCalls[c].at = "device"
    /\ InitFailed(c)
    /\ UNCHANGED <<hasGpu, gpuDevices, gpuLost, gpuLostPending, gpuSeen>>
    /\ UNCHANGED <<nodes, edges>>
    /\ UNCHANGED <<graphVars, runVars, hashVars, execVars, editorVars, restVars>>

\* lines 20-24: the lost promise of a device resolves
DeviceLost ==
  \E d \in 1..gpuDevices :
    /\ d \notin gpuLost
    /\ gpuLost' = gpuLost \cup {d}
    /\ gpuDevice' = NoDevice
    /\ gpuInitialized' = LostClearsFlag(gpuInitialized)
    /\ gpuLostPending' = TRUE
    /\ UNCHANGED <<hasGpu, gpuCalls, gpuDevices, gpuSeen>>
    /\ UNCHANGED <<nodes, edges>>
    /\ UNCHANGED <<graphVars, runVars, hashVars, execVars, editorVars, restVars>>

\* lines 35-37
CallGetGpuDevice ==
  /\ gpuSeen' = [device |-> gpuDevice, afterLost |-> gpuLostPending]
  /\ UNCHANGED <<hasGpu, gpuDevice, gpuInitialized, gpuCalls, gpuDevices,
                 gpuLost, gpuLostPending>>
  /\ UNCHANGED <<nodes, edges>>
  /\ UNCHANGED <<graphVars, runVars, hashVars, execVars, editorVars, restVars>>

GpuNext ==
  \/ CallInitGpu
  \/ AdapterFound
  \/ AdapterMissing
  \/ DeviceGranted
  \/ DeviceRefused
  \/ DeviceLost
  \/ CallGetGpuDevice

SpecGpu == GpuInit /\ [][GpuNext]_vars

\* C19 (as claimed): after a lost event getGpuDevice() returns none until
\* initGpu() is called again, and that call requests a new device instead of
\* returning the cached result
C19_LostInvalidatesSingleton ==
  /\ gpuSeen.afterLost => gpuSeen.device = NoDevice
  /\ \A c \in 1..Len(gpuCalls) : gpuCalls[c].afterLost => gpuCalls[c].requested

\* -------------------------------------------------------------- SpecExec
\* one invocation of a node executor, as the list of the steps of its body:
\* a call of ctx.onProgress (progress in hundredths), synchronous work that
\* may throw, an await that may reject, an abort check, the return
P(v) == [op |-> "progress", v |-> v]
Sync == [op |-> "sync", v |-> 0]
Await == [op |-> "await", v |-> 0]
AbortCheck == [op |-> "abortCheck", v |-> 0]
Return == [op |-> "return", v |-> 0]

ExecKinds == {"remove-bg", "normalize", "upscale", "outline"}

\* executeRemoveBg, lines 95-150
RemoveBgSteps ==
  <<P(5), Await, P(20), AbortCheck, Sync, Await, P(30), Await, P(80), P(100),
    Await, Return>>

\* executeNormalize, lines 16-80: the early return for an empty image
NormalizeSteps(empty) ==
  <<P(10), Sync, P(40)>>
  \o (IF empty THEN <<Await, Return>>
      ELSE <<P(60), Sync, P(80), Sync, Await, P(100), Return>>)

\* executeUpscale, lines 19-91
UpscaleSteps ==
  <<P(5), Await, P(30), AbortCheck, Sync, Await, P(70), Await, Sync, P(90),
    Await, P(100), Return>>

\* executeOutlineGpu, lines 60-258: the abort check of line 153 is in
\* runJfaPass, which runs twice; the one await is textureToBitmap
OutlineGpuSteps ==
  <<P(10), Sync, P(20), AbortCheck, Sync, P(50), AbortCheck, Sync, P(80),
    Sync, P(95), Await, Sync, P(100), Return>>

\* faulty variant: the canvas path reports progress of its own
OutlineCanvasStepsWithProgress == <<P(10), Sync, Await, P(100), Return>>

\* executeOutlineCanvas, lines 266-337: no progress is reported
OutlineCanvasSteps == <<Sync, Await, Return>>

ExecSteps(kind, path, empty) ==
  IF kind = "remove-bg" THEN RemoveBgSteps
  ELSE IF kind = "normalize" THEN NormalizeSteps(empty)
  ELSE IF kind = "upscale" THEN UpscaleSteps
  ELSE IF path = "gpu" THEN OutlineGpuSteps
  ELSE OutlineCanvasSteps

\* faulty variant: an AbortError of the GPU path is thrown on
RethrowsAbort(errorName) == errorName # "AbortError"

\* outline.ts lines 34-38: the catch takes every error of executeOutlineGpu
CatchesGpuError(errorName) == TRUE

ExecInit ==
  /\ exKind \in ExecKinds
  /\ exGpu \in BOOLEAN
  /\ exEmpty \in BOOLEAN
  /\ exInputs \in {0, 1}
  /\ exAborted \in BOOLEAN
  /\ exPath = ""
  /\ exPos = 0
  /\ exProgress = <<>>
  /\ exGpuThrew = ""
  /\ exResult = [state |-> "idle", name |-> "", by |-> ""]
  /\ nodes = <<>>
  /\ edges = <<>>
  /\ GraphIdle
  /\ RunIdle
  /\ HashIdle
  /\ GpuIdle
  /\ EditorIdle
  /\ RestIdle

ExecOthersUnchanged ==
  /\ UNCHANGED <<nodes, edges>>
  /\ UNCHANGED <<graphVars, runVars, hashVars, gpuVars, editorVars, restVars>>

ExStep == ExecSteps(exKind, exPath, exEmpty)[exPos]

ExRunning == exResult.state = "pending" /\ exPos >= 1

\* an error leaves the body: executeOutline catches what its GPU path throws
\* and goes on with the canvas path; everything else rejects the invocation
ExThrow(errorName) ==
  IF exKind = "outline" /\ exPath = "gpu" /\ CatchesGpuError(errorName)
  THEN /\ exPath' = "cpu"
       /\ exPos' = 1
       /\ exGpuThrew' = errorName
       /\ UNCHANGED exResult
  ELSE /\ exResult' = [state |-> "rejected", name |-> errorName, by |-> exPath]
       /\ exGpuThrew' = IF exPath = "gpu" THEN errorName ELSE exGpuThrew
       /\ UNCHANGED <<exPath, exPos>>

\* the executor is invoked: the check of inputs[0] and, for outline, the
\* choice of the path (outline.ts lines 16-17 and 33)
InvokeExecutor ==
  /\ exResult.state = "idle"
  /\ IF exInputs = 0
     THEN /\ exResult' = [state |-> "rejected", name |-> "Error", by |-> ""]
          /\ UNCHANGED <<exPath, exPos>>
     ELSE /\ exResult' = [state |-> "pending", name |-> "", by |-> ""]
          /\ exPath' = IF exKind # "outline" THEN "main"
                       ELSE IF exGpu THEN "gpu" ELSE "cpu"
          /\ exPos' = 1
  /\ UNCHANGED <<exKind, exGpu, exEmpty, exInputs, exAborted, exProgress,
                 exGpuThrew>>
  /\ ExecOthersUnchanged

\* ctx.onProgress('', v): the scheduler passes it on with the node's id
StepProgress ==
  /\ ExRunning
  /\ ExStep.op = "progress"
  /\ exProgress' = Append(exProgress, ExStep.v)
  /\ exPos' = exPos + 1
  /\ UNCHANGED <<exKind, exGpu, exEmpty, exInputs, exAborted, exPath,
                 exGpuThrew, exResult>>
  /\ ExecOthersUnchanged

StepSync ==
  /\ ExRunning
  /\ ExStep.op = "sync"
  /\ exPos' = exPos + 1
  /\ UNCHANGED <<exKind, exGpu, exEmpty, exInputs, exAborted, exPath,
                 exProgress, exGpuThrew, exResult>>
  /\ ExecOthersUnchanged

StepSyncThrows ==
  /\ ExRunning
  /\ ExStep.op = "sync"
  /\ ExThrow("Error")
  /\ UNCHANGED <<exKind, exGpu, exEmpty, exInputs, exAborted, exProgress>>
  /\ ExecOthersUnchanged

StepAwaitResolves ==
  /\ ExRunning
  /\ ExStep.op = "await"
  /\ exPos' = exPos + 1
  /\ UNCHANGED <<exKind, exGpu, exEmpty, exInputs, exAborted, exPath,
                 exProgress, exGpuThrew, exResult>>
  /\ ExecOthersUnchanged

StepAwaitRejects ==
  /\ ExRunning
  /\ ExStep.op = "await"
  /\ ExThrow("Error")
  /\ UNCHANGED <<exKind, exGpu, exEmpty, exInputs, exAborted, exProgress>>
  /\ ExecOthersUnchanged

\* if (ctx.abortSignal.aborted) throw new DOMException('Aborted', 'AbortError')
StepAbortCheck ==
  /\ ExRunning
  /\ ExStep.op = "abortCheck"
  /\ IF exAborted
     THEN ExThrow("AbortError")
     ELSE exPos' = exPos + 1 /\ UNCHANGED <<exPath, exGpuThrew, exResult>>
  /\ UNCHANGED <<exKind, exGpu, exEmpty, exInputs, exAborted, exProgress>>
  /\ ExecOthersUnchanged

StepReturn ==
  /\ ExRunning
  /\ ExStep.op = "return"
  /\ exResult' = [state |-> "resolved", name |-> "", by |-> exPath]
  /\ UNCHANGED <<exKind, exGpu, exEmpty, exInputs, exAborted, exPath, exPos,
                 exProgress, exGpuThrew>>
  /\ ExecOthersUnchanged

\* the signal is aborted while the executor is suspended at an await
ExecAbort ==
  /\ ExRunning
  /\ ExStep.op = "await"
  /\ ~exAborted
  /\ exAborted' = TRUE
  /\ UNCHANGED <<exKind, exGpu, exEmpty, exInputs, exPath, exPos, exProgress,
                 exGpuThrew, exResult>>
  /\ ExecOthersUnchanged

ExecNext ==
  \/ InvokeExecutor
  \/ StepProgress
  \/ StepSync
  \/ StepSyncThrows
  \/ StepAwaitResolves
  \/ StepAwaitRejects
  \/ StepAbortCheck
  \/ StepReturn
  \/ ExecAbort

SpecExec == ExecInit /\ [][ExecNext]_vars

\* C17: the values passed to onNodeProgress during one invocation are
\* non-decreasing and within [0, 1], on every path of every executor
C17_ProgressMonotonic ==
  /\ \A k \in 1..Len(exProgress) : exProgress[k] >= 0 /\ exProgress[k] <= 100
  /\ \A k \in 1..(Len(exProgress) - 1) : exProgress[k] <= exProgress[k + 1]

C17_Witness ==
  \/ /\ exKind = "outline"
     /\ exGpuThrew = "Error"
     /\ exResult = [state |-> "resolved", name |-> "", by |-> "cpu"]
     /\ exProgress = <<10, 20, 50, 80, 95>>
  \/ /\ exKind = "normalize"
     /\ exEmpty
     /\ exResult.state = "resolved"
     /\ exProgress = <<10, 40>>

\* C20: when executeOutlineGpu throws, at whatever step and whatever error,
\* the same invocation goes on with the canvas path: it returns that path's
\* frame if the path succeeds, and it rejects only with that path's failure
C20_GpuFailureFallsBack ==
  (exKind = "outline" /\ exGpuThrew # "") =>
     /\ exPath = "cpu"
     /\ exResult.state = "resolved" => exResult.by = "cpu"
     /\ exResult.state = "rejected" => exResult.by = "cpu"

C20_Witness ==
  /\ exKind = "outline"
  /\ exGpuThrew = "AbortError"
  /\ exProgress = <<10, 20>>
  /\ exResult = [state |-> "resolved", name |-> "", by |-> "cpu"]

\* ------------------------------------------------------------ SpecEditor
\* the editor: the pinia store (stores/pipeline.ts), run() and stop() of
\* usePipelineRunner, and what calls them (TopBar.vue, InputNode.vue,
\* NodeInspector.vue). A step runs from one suspension of the event loop to
\* the next: run() goes on synchronously through cached nodes, output nodes
\* and failed checks, and is suspended at `await initGpu()` while the device
\* is being requested, at `await resizeBitmap(...)` and at `await executor(...)`
MaxEditorRuns == 3   \* calls of run()
MaxUploads == 2      \* images handed to handleFile
MaxEdits == 1        \* calls of updateNodeParams
MaxEditorClock == 1  \* Date.now() takes the values 0..MaxEditorClock

\* the value the inspector sets. The user edits once a run has completed;
\* an awaited promise rejects with an error of its own only during the
\* first call of run() (SpecRun has the failures of executors)
EditValues == {8}

EdNode(id, type) == [id |-> id, type |-> type, params |-> <<>>]
EdEdge(a, b) == [source |-> a, target |-> b]

\* input -> proc -> output; input -> two outputs; input and output unconnected
EditorPipelines ==
  { [nodes |-> <<EdNode(1, "input"), EdNode(2, "proc"), EdNode(3, "output")>>,
     edges |-> <<EdEdge(1, 2), EdEdge(2, 3)>>],
    [nodes |-> <<EdNode(1, "input"), EdNode(2, "output"), EdNode(3, "output")>>,
     edges |-> <<EdEdge(1, 2), EdEdge(1, 3)>>],
    [nodes |-> <<EdNode(1, "input"), EdNode(2, "output")>>,
     edges |-> <<>>] }

EdIds == Range(IdsOf(nodes))
EdInputIds == { id \in EdIds : NodeOf(id).type = "input" }

\* the bitmap an executor (or resizeBitmap) makes of a bitmap
Processed(bitmap, id) == bitmap * 10 + id

\* one call of run(): where it is and its locals
NewRun(at) ==
  [pc |-> at, order |-> <<>>, idx |-> 0, key |-> NullKey, bitmap |-> -1,
   log |-> <<>>, failed |-> FALSE, last |-> FALSE]

InFlight(run) == run.pc \in {"initGpu", "await"}

\* the store and the calls of run(), as one value the handlers work on
Store ==
  [st |-> storeStates, images |-> inputImages, isRunning |-> isRunning,
   ctl |-> abortController, aborted |-> abortedSignals, gpuReady |-> gpuReady,
   runs |-> runs, timers |-> timers, nextRun |-> nextRun,
   scenario |-> scenario, overlapped |-> overlapped]

Commit(s) ==
  /\ storeStates' = s.st
  /\ inputImages' = s.images
  /\ isRunning' = s.isRunning
  /\ abortController' = s.ctl
  /\ abortedSignals' = s.aborted
  /\ gpuReady' = s.gpuReady
  /\ runs' = s.runs
  /\ timers' = s.timers
  /\ nextRun' = s.nextRun
  /\ scenario' = s.scenario
  /\ overlapped' = s.overlapped

EditorOthersUnchanged ==
  /\ UNCHANGED edges
  /\ UNCHANGED <<graphVars, runVars, hashVars, gpuVars, execVars, restVars>>

\* ---- stores/pipeline.ts
\* updateNodeState (getNodeState makes the default state of an unknown id)
updateNodeState(st, nodeId, update) == [st EXCEPT ![nodeId] = Assign(@, update)]

\* faulty variant: the output is kept
invalidateNodeKeepsOutput(st, id) ==
  [st EXCEPT ![id] = Assign(@, [cacheKey |-> NullKey, status |-> "idle"])]

invalidateNode(st, id) ==
  [st EXCEPT ![id] = Assign(@, [cacheKey |-> NullKey, status |-> "idle",
                                output |-> NullFrame])]

RECURSIVE InvalidateAll(_, _)
InvalidateAll(st, ids) ==
  IF ids = <<>> THEN st
  ELSE InvalidateAll(invalidateNode(st, Head(ids)), Tail(ids))

invalidateDownstream(st, nodeId) ==
  InvalidateAll(st, getDownstreamNodes(nodeId, edges))

\* { ...node.data.params, ...params } with one key
MergeParams(params, key, value) ==
  IF key \in ParamKeys(params)
  THEN [i \in 1..Len(params) |->
          IF params[i][1] = key THEN <<key, value>> ELSE params[i]]
  ELSE Append(params, <<key, value>>)

setInputImage(s, nodeId, frame) ==
  [s EXCEPT !.images[nodeId] = frame,
            !.st = updateNodeState(invalidateDownstream(@, nodeId), nodeId,
                     [output |-> frame, status |-> "done",
                      cacheKey |-> NullKey])]

\* ---- usePipelineRunner.ts
\* stop(): store.abortController?.abort()
stop(s) == IF s.ctl # 0 THEN [s EXCEPT !.aborted = @ \cup {s.ctl}] ELSE s

\* lines 195-198; how: the loop went through the whole order ("finished") or
\* was left by a break ("stopped"); last marks the call that ended last
Finally(s, r, how) ==
  [s EXCEPT !.runs = [q \in DOMAIN @ |->
                        IF q = r THEN [@[q] EXCEPT !.pc = how, !.last = TRUE]
                        ELSE [@[q] EXCEPT !.last = FALSE]],
            !.isRunning = FALSE, !.ctl = 0]

WriteStatus(s, r, id, update) ==
  [s EXCEPT !.st = updateNodeState(@, id, update),
            !.runs[r].log = Append(@, <<id, update.status>>)]

\* lines 177-185
WriteDone(s, r, id, output) ==
  WriteStatus(s, r, id, [status |-> "done", progress |-> 10, output |-> output,
                         cacheKey |-> s.runs[r].key, error |-> ""])

\* lines 189-192
WriteError(s, r, id, message) ==
  [WriteStatus(s, r, id, [status |-> "error", error |-> message])
     EXCEPT !.runs[r].failed = TRUE]

\* line 112
LoopSeesAbort(s, r) == r \in s.aborted

RECURSIVE Loop(_, _)
\* lines 111-194, from the top of the iteration runs[r].idx to the next await
\* or to the end of run()
Loop(s, r) ==
  LET run == s.runs[r]
  IN IF run.idx > Len(run.order) THEN Finally(s, r, "finished")
     ELSE IF LoopSeesAbort(s, r) THEN Finally(s, r, "stopped")
     ELSE
       LET id == run.order[run.idx]
           node == NodeOf(id)
           ins == GatherInputs(s.st, id)
           key == computeCacheKey(id, node.params, Revisions(ins))
           running == WriteStatus([s EXCEPT !.runs[r].key = key], r, id,
                                  [status |-> "running", progress |-> 0])
           goOn(t) == Loop([t EXCEPT !.runs[r].idx = @ + 1], r)
           suspend(bitmap) ==
             [running EXCEPT !.runs[r].pc = "await", !.runs[r].bitmap = bitmap]
       IN IF s.st[id].cacheKey = key /\ s.st[id].output # NullFrame
          THEN goOn(WriteStatus(s, r, id, [status |-> "cached"]))
          ELSE IF node.type = "input"
          THEN IF s.images[id] = NullFrame
               THEN goOn(WriteError(running, r, id, "No input image"))
               ELSE suspend(s.images[id].bitmap)
          ELSE IF ins = <<>>
          THEN goOn(WriteError(running, r, id, "No input"))
          ELSE IF node.type = "output"
          THEN goOn(WriteDone(running, r, id, ins[1]))
          ELSE suspend(ins[1].bitmap)

\* lines 80-85
ResetPending(st) ==
  [id \in DOMAIN st |->
     IF st[id].status \notin {"done", "cached"}
     THEN Assign(st[id], [status |-> "pending", progress |-> 0, error |-> ""])
     ELSE st[id]]

\* lines 75-111: after initGpu
Setup(s, r) ==
  Loop([s EXCEPT !.ctl = r, !.isRunning = TRUE, !.st = ResetPending(@),
                 !.runs[r].order = topoSort(nodes, edges).sorted,
                 !.runs[r].idx = 1], r)

\* run(), lines 36-72, and on when initGpu() has nothing to wait for
RunCall(s) ==
  LET r == Len(s.runs) + 1
      disturbed == /\ s.scenario.edited # NoId
                   /\ s.scenario.rerun # 0
                   /\ InFlight(s.runs[s.scenario.rerun])
      called ==
        [s EXCEPT !.runs = Append(@, NewRun("initGpu")),
                  !.overlapped = @ \/ \E q \in 1..Len(s.runs) : InFlight(s.runs[q]),
                  !.nextRun = [i \in DOMAIN @ |-> IF @[i] = 0 THEN r ELSE @[i]],
                  !.scenario =
                     IF disturbed THEN NoScenario
                     ELSE IF @.edited # NoId /\ @.rerun = 0
                     THEN [@ EXCEPT !.rerun = r]
                     ELSE @]
  IN IF validatePipeline(nodes, edges) # <<>>
        \/ \E i \in EdInputIds : s.images[i] = NullFrame
     THEN [s EXCEPT !.runs = Append(@, NewRun("refused"))]
     ELSE IF s.gpuReady THEN Setup(called, r) ELSE called

\* something else happens while the edit's re-run is not finished
Disturb(s) ==
  IF /\ s.scenario.edited # NoId
     /\ \/ s.scenario.rerun = 0
        \/ InFlight(s.runs[s.scenario.rerun])
  THEN [s EXCEPT !.scenario = NoScenario]
  ELSE s

\* a completed run: the call of run() that ended last went through the whole
\* pipeline without an error, no call is in flight, no restart is pending and
\* every node is done or cached
Completed ==
  /\ \A q \in 1..Len(runs) : ~InFlight(runs[q])
  /\ \E q \in 1..Len(runs) :
        runs[q].last /\ runs[q].pc = "finished" /\ ~runs[q].failed
  /\ timers = 0
  /\ ~isRunning
  /\ \A id \in EdIds : storeStates[id].status \in {"done", "cached"}

EditorInit ==
  /\ \E p \in EditorPipelines : nodes = p.nodes /\ edges = p.edges
  /\ storeStates = [id \in EdIds |-> createDefaultNodeState]
  /\ inputImages = [id \in EdInputIds |-> NullFrame]
  /\ isRunning = FALSE
  /\ abortController = 0
  /\ abortedSignals = {}
  /\ gpuReady = FALSE
  /\ runs = <<>>
  /\ timers = 0
  /\ edNow = 0
  /\ uploads = 0
  /\ edits = 0
  /\ nextRun = [id \in EdInputIds |-> -1]
  /\ scenario = NoScenario
  /\ overlapped = FALSE
  /\ GraphIdle
  /\ RunIdle
  /\ HashIdle
  /\ GpuIdle
  /\ ExecIdle
  /\ RestIdle

\* InputNode.vue handleFile, then the watcher of TopBar.vue lines 33-43
Upload ==
  \E id \in EdInputIds :
    /\ uploads < MaxUploads
    /\ isRunning \/ Len(runs) < MaxEditorRuns
    /\ LET frame == [bitmap |-> uploads + 1, revision |-> edNow]
           set == setInputImage([Disturb(Store) EXCEPT !.nextRun[id] = 0],
                                id, frame)
       IN Commit(IF set.isRunning
                 THEN [stop(set) EXCEPT !.timers = @ + 1]
                 ELSE RunCall(set))
    /\ uploads' = uploads + 1
    /\ UNCHANGED <<nodes, edNow, edits>>
    /\ EditorOthersUnchanged

\* setTimeout(() => run(), 50)
TimerFires ==
  /\ timers > 0
  /\ Len(runs) < MaxEditorRuns
  /\ Commit(RunCall([Store EXCEPT !.timers = @ - 1]))
  /\ UNCHANGED <<nodes, edNow, uploads, edits>>
  /\ EditorOthersUnchanged

\* the Run button (shown while !store.isRunning) or Cmd+Enter
ClickRun ==
  /\ ~isRunning
  /\ Len(runs) < MaxEditorRuns
  /\ Commit(RunCall(Store))
  /\ UNCHANGED <<nodes, edNow, uploads, edits>>
  /\ EditorOthersUnchanged

\* the Stop button or Cmd+Enter while store.isRunning
ClickStop ==
  /\ isRunning
  /\ abortController \notin abortedSignals
  /\ Commit(stop(Disturb(Store)))
  /\ UNCHANGED <<nodes, edNow, uploads, edits>>
  /\ EditorOthersUnchanged

\* NodeInspector.vue: store.updateNodeParams(id, {[key]: value})
EditParams ==
  \E i \in 1..Len(nodes) : \E value \in EditValues :
    /\ edits < MaxEdits
    /\ Completed
    /\ nodes' = [nodes EXCEPT ![i].params = MergeParams(@, <<97>>, value)]
    /\ LET id == nodes[i].id
           s == Disturb(Store)
       IN Commit([s EXCEPT
            !.st = invalidateDownstream(invalidateNode(@, id), id),
            !.scenario = [edited |-> id, rerun |-> 0]])
    /\ edits' = edits + 1
    /\ UNCHANGED <<edNow, uploads>>
    /\ EditorOthersUnchanged

\* the device request of initGpu() is over, with or without a device
InitGpuResolves ==
  \E r \in 1..Len(runs) :
    /\ runs[r].pc = "initGpu"
    /\ Commit(Setup([Store EXCEPT !.gpuReady = TRUE], r))
    /\ UNCHANGED <<nodes, edNow, uploads, edits>>
    /\ EditorOthersUnchanged

\* resizeBitmap or the executor resolves: lines 155, 173 and 176-185
NodeResolves ==
  \E r \in 1..Len(runs) :
    /\ runs[r].pc = "await"
    /\ LET id == runs[r].order[runs[r].idx]
           output == createFrame(Processed(runs[r].bitmap, id), edNow)
           done == WriteDone(Store, r, id, output)
       IN Commit(Loop([done EXCEPT !.runs[r].idx = @ + 1], r))
    /\ UNCHANGED <<nodes, edNow, uploads, edits>>
    /\ EditorOthersUnchanged

\* the awaited promise rejects, with the AbortError of an abort check of the
\* executor or with another error: lines 186-193
NodeRejects ==
  \E r \in 1..Len(runs) :
    /\ runs[r].pc = "await"
    /\ r \in abortedSignals \/ Len(runs) = 1
    /\ LET id == runs[r].order[runs[r].idx]
       IN Commit(IF r \in abortedSignals
                 THEN Finally(Store, r, "stopped")
                 ELSE Loop([WriteError(Store, r, id, "Error")
                              EXCEPT !.runs[r].idx = @ + 1], r))
    /\ UNCHANGED <<nodes, edNow, uploads, edits>>
    /\ EditorOthersUnchanged

EditorTick ==
  /\ edNow < MaxEditorClock
  /\ edNow' = edNow + 1
  /\ UNCHANGED <<storeStates, inputImages, isRunning, abortController,
                 abortedSignals, gpuReady, runs, timers, uploads, edits,
                 nextRun, scenario, overlapped>>
  /\ UNCHANGED nodes
  /\ EditorOthersUnchanged

EditorNext ==
  \/ Upload
  \/ TimerFires
  \/ ClickRun
  \/ ClickStop
  \/ EditParams
  \/ InitGpuResolves
  \/ NodeResolves
  \/ NodeRejects
  \/ EditorTick

SpecEditor == EditorInit /\ [][EditorNext]_vars

\* C18: at most one run of the editor is executing the pipeline at any time
C18_OneRunInFlight ==
  Cardinality({ r \in 1..Len(runs) : runs[r].pc = "await" }) <= 1

\* the statuses run r has written for a node, in order
Written(r, id) ==
  LET of == SelectSeq(runs[r].log, LAMBDA e : e[1] = id)
  IN [k \in 1..Len(of) |-> of[k][2]]

Downstream(id) == Range(getDownstreamNodes(id, edges))

RerunOver ==
  /\ scenario.rerun # 0
  /\ runs[scenario.rerun].pc = "finished"
  /\ ~runs[scenario.rerun].failed

\* C11: when a node's params are edited after a completed run and the
\* pipeline is run again, the edited node and the nodes downstream of it go
\* running -> done and every other node is reported cached, with nothing else
C11_EditRerunsDownstreamOnly ==
  RerunOver =>
    \A n \in EdIds :
      Written(scenario.rerun, n) =
        IF n = scenario.edited \/ n \in Downstream(scenario.edited)
        THEN <<"running", "done">>
        ELSE <<"cached">>

\* the same, as long as no two calls of run() have been in flight together
C11_WhenRunsDoNotOverlap == overlapped \/ C11_EditRerunsDownstreamOnly

\* ------------------------------------------------ further claims, SpecRun
\* an edge names an id that no node has
DanglingEdge ==
  \E i \in 1..Len(edges) :
    edges[i].source \notin Range(IdsOf(nodes))
      \/ edges[i].target \notin Range(IdsOf(nodes))

\* C23: a pipeline with an edge whose source or target is not the id of any
\* node is rejected by validation, and none of its nodes is executed
C23_DanglingEdgeRejected ==
  (runNo >= 1 /\ DanglingEdge) =>
     /\ pc = "settled"
     /\ Result.state = "rejected"
     /\ Result.errors # <<>>
     /\ callbacks = <<>>
     /\ invoked = <<>>

\* C22: the frame that run encodes is the frame of the output node whose
\* format and quality the encoding uses
C22_BlobOfDeclaringOutput ==
  (Settled /\ Result.state = "resolved") =>
     /\ Result.formatOf \in DOMAIN nodeStates
     /\ Result.frame = nodeStates[Result.formatOf].output

\* C30: once the signal of a run is aborted, no step of that run records a
\* node result (no node state is written with status done) and none delivers
\* an onNodeStatus done callback
C30_DiscardsAfterAbort ==
  [][(aborted /\ runNo' = runNo) =>
       /\ \A id \in DOMAIN nodeStates :
            nodeStates'[id] # nodeStates[id] => nodeStates'[id].status # "done"
       /\ \A i \in (Len(callbacks) + 1)..Len(callbacks') :
            ~(callbacks'[i].fn = "onNodeStatus" /\ callbacks'[i].status = "done")
    ]_vars

\* ------------------------------------------------ further claims, SpecExec
\* an abort check of the invocation has thrown its AbortError
AbortErrorRaised == exGpuThrew = "AbortError" \/ exResult.name = "AbortError"

\* C29: an AbortError thrown at an executor's abort check is not caught by
\* the executor: the invocation never goes on to return a frame, which the
\* scheduler would record as the node's done result
C29_AbortErrorPropagates ==
  AbortErrorRaised => exResult.state # "resolved"

\* ---------------------------------------------- further claims, SpecEditor
\* C26: in the editor store, a node has a cache key exactly when it has an
\* output and its status is done or cached
C26_KeyIffOutputDone ==
  \A id \in DOMAIN storeStates :
     (storeStates[id].cacheKey # NullKey)
       <=> (/\ storeStates[id].output # NullFrame
            /\ storeStates[id].status \in {"done", "cached"})

\* the node state has no key, no output and status idle
Invalidated(state) ==
  state.cacheKey = NullKey /\ state.output = NullFrame /\ state.status = "idle"

\* C27: updateNodeParams(n, p) leaves n and every node reached from n through
\* one or more edges without key, without output and idle, and leaves the
\* state of every other node as it was
C27_EditInvalidatesDownstream ==
  [][\A i \in 1..Len(nodes) :
       nodes'[i] # nodes[i] =>
         \A id \in DOMAIN storeStates :
            IF id = nodes[i].id \/ id \in ReachedFrom(Range(edges), nodes[i].id)
            THEN Invalidated(storeStates'[id])
            ELSE storeStates'[id] = storeStates[id]
    ]_vars

\* right after an edit of the processing node of the chain: the input node
\* keeps its result, the processing node and the output node have lost theirs
C27_Witness ==
  /\ Len(nodes) = 3
  /\ scenario = [edited |-> 2, rerun |-> 0]
  /\ nodes[2].params # <<>>
  /\ storeStates[1].status = "done" /\ storeStates[1].cacheKey # NullKey
  /\ Invalidated(storeStates[2])
  /\ Invalidated(storeStates[3])

\* ---------------------------------------------------------- SpecRemoveBg
\* executors/remove-bg.ts: executeRemoveBg and getSegmenter with the module's
\* segmenter and loadedDtype, invoked one after the other as the scheduler
\* does. The attempts that use a device are the creation of the segmenter
\* (pipeline(...)) and the inference (model(rawImage)); the abort check of
\* line 106 is a step of SpecExec.
MaxRbCalls == 2

RbDevices == {"auto", "webgpu", "wasm"}
RbDtypes == {"fp16", "fp32"}
\* navigator.gpu.requestAdapter(): an adapter, null, navigator.gpu missing,
\* a rejection
RbAdapters == {"adapter", "none", "noGpu", "throws"}

RbTry(phase, device, ok) == [phase |-> phase, device |-> device, ok |-> ok]

RbSettle(state, device) ==
  /\ rbPc' = "settled"
  /\ rbResult' = [state |-> state,
                  name |-> IF state = "rejected" THEN "Error" ELSE "",
                  by |-> device]

RbOthersUnchanged ==
  /\ UNCHANGED <<nodes, edges>>
  /\ UNCHANGED <<graphVars, runVars, hashVars, gpuVars, execVars, editorVars,
                 olVars, rzVars, moreVars>>

RbInit ==
  /\ nodes = <<>>
  /\ edges = <<>>
  /\ GraphIdle
  /\ RunIdle
  /\ ExtIdle

\* executeRemoveBg lines 91-101 and getSegmenter lines 10-15: the segmenter
\* of the module is returned when it was loaded for the same dtype, whatever
\* the device; otherwise it is reset and loaded
CallExecuteRemoveBg ==
  \E device \in RbDevices, dtype \in RbDtypes, adapter \in RbAdapters :
    /\ rbPc \in {"idle", "settled"}
    /\ rbCalls < MaxRbCalls
    /\ rbCalls' = rbCalls + 1
    /\ rbDevice' = device
    /\ rbDtype' = dtype
    /\ rbAdapter' = adapter
    /\ rbTries' = <<>>
    /\ rbResult' = [state |-> "pending", name |-> "", by |-> ""]
    /\ IF segmenter # "" /\ loadedDtype = dtype
       THEN /\ rbPc' = "infer"
            /\ rbActual' = ""
            /\ UNCHANGED segmenter
       ELSE /\ segmenter' = ""
            /\ rbActual' = IF device = "auto" THEN "" ELSE device
            /\ rbPc' = IF device = "auto" THEN "resolve" ELSE "load"
    /\ UNCHANGED loadedDtype
    /\ RbOthersUnchanged

\* getSegmenter lines 22-34: 'auto'
ResolveAuto ==
  /\ rbPc = "resolve"
  /\ rbActual' = IF rbAdapter = "adapter" THEN "webgpu" ELSE "wasm"
  /\ rbPc' = "load"
  /\ UNCHANGED <<segmenter, loadedDtype, rbCalls, rbDevice, rbDtype, rbAdapter,
                 rbTries, rbResult>>
  /\ RbOthersUnchanged

\* getSegmenter lines 52-57 and 68-70: pipeline(...) on actualDevice resolves
LoadResolves ==
  /\ rbPc = "load"
  /\ segmenter' = rbActual
  /\ loadedDtype' = rbDtype
  /\ rbTries' = Append(rbTries, RbTry("load", rbActual, TRUE))
  /\ rbPc' = "infer"
  /\ UNCHANGED <<rbCalls, rbDevice, rbDtype, rbAdapter, rbActual, rbResult>>
  /\ RbOthersUnchanged

\* getSegmenter lines 58-69 and 78-81: pipeline(...) on actualDevice rejects
LoadRejects ==
  /\ rbPc = "load"
  /\ rbTries' = Append(rbTries, RbTry("load", rbActual, FALSE))
  /\ IF rbActual = "webgpu"
     THEN rbPc' = "retry" /\ UNCHANGED rbResult
     ELSE RbSettle("rejected", rbActual)
  /\ UNCHANGED <<segmenter, loadedDtype, rbCalls, rbDevice, rbDtype, rbAdapter,
                 rbActual>>
  /\ RbOthersUnchanged

\* getSegmenter lines 61-65: pipeline(...) with device 'wasm' resolves
RetryResolves ==
  /\ rbPc = "retry"
  /\ segmenter' = "wasm"
  /\ loadedDtype' = rbDtype
  /\ rbTries' = Append(rbTries, RbTry("load", "wasm", TRUE))
  /\ rbPc' = "infer"
  /\ UNCHANGED <<rbCalls, rbDevice, rbDtype, rbAdapter, rbActual, rbResult>>
  /\ RbOthersUnchanged

\* getSegmenter lines 61-65 and 78-81: the retry rejects
RetryRejects ==
  /\ rbPc = "retry"
  /\ rbTries' = Append(rbTries, RbTry("load", "wasm", FALSE))
  /\ RbSettle("rejected", "wasm")
  /\ UNCHANGED <<segmenter, loadedDtype, rbCalls, rbDevice, rbDtype, rbAdapter,
                 rbActual>>
  /\ RbOthersUnchanged

\* executeRemoveBg lines 114-150: model(rawImage, ...) resolves
InferResolves ==
  /\ rbPc = "infer"
  /\ rbTries' = Append(rbTries, RbTry("infer", segmenter, TRUE))
  /\ RbSettle("resolved", segmenter)
  /\ UNCHANGED <<segmenter, loadedDtype, rbCalls, rbDevice, rbDtype, rbAdapter,
                 rbActual>>
  /\ RbOthersUnchanged

\* executeRemoveBg lines 114-116: model(rawImage, ...) rejects; nothing
\* catches it
InferRejects ==
  /\ rbPc = "infer"
  /\ rbTries' = Append(rbTries, RbTry("infer", segmenter, FALSE))
  /\ RbSettle("rejected", segmenter)
  /\ UNCHANGED <<segmenter, loadedDtype, rbCalls, rbDevice, rbDtype, rbAdapter,
                 rbActual>>
  /\ RbOthersUnchanged

RbNext ==
  \/ CallExecuteRemoveBg
  \/ ResolveAuto
  \/ LoadResolves
  \/ LoadRejects
  \/ RetryResolves
  \/ RetryRejects
  \/ InferResolves
  \/ InferRejects

SpecRemoveBg == RbInit /\ [][RbNext]_vars

\* C21: in a settled invocation every attempt that failed under webgpu is
\* followed by exactly one attempt of the same kind under wasm; a rejection
\* is the failure of an attempt under wasm; and 'auto', once resolved, is
\* webgpu exactly when requestAdapter gave an adapter
C21_WebgpuFailureRetriedOnce ==
  /\ rbPc = "settled" =>
       \A k \in 1..Len(rbTries) :
          (rbTries[k].device = "webgpu" /\ ~rbTries[k].ok) =>
             /\ k + 1 <= Len(rbTries)
             /\ rbTries[k + 1].phase = rbTries[k].phase
             /\ rbTries[k + 1].device = "wasm"
             /\ k + 2 <= Len(rbTries) => rbTries[k + 2].phase # rbTries[k].phase
  /\ rbResult.state = "rejected" =>
       /\ rbTries # <<>>
       /\ rbTries[Len(rbTries)].device = "wasm"
       /\ ~rbTries[Len(rbTries)].ok
  /\ (rbDevice = "auto" /\ rbActual # "") =>
       (rbActual = "webgpu" <=> rbAdapter = "adapter")

\* ----------------------------------------------------------- SpecOutline
\* executors/outline.ts: executeOutline on its canvas path (ctx.gpuDevice is
\* null), on square images of OlSide x OlSide pixels. The three colour
\* channels are computed alike, so a pixel is one channel value and its
\* alpha; its alpha is 0 or 255, for which drawing the bitmap on a canvas and
\* reading it back gives the same bytes. Distances, opacities and alphas
\* between 0 and 1 are counted in thousandths.
OlSide == 3

Milli == 1000
Diagonal == 1414
Far == 1000000
DefaultThickness == 4
Absent == -1

Transparent == [v |-> 0, a |-> 0]
Opaque == [v |-> 100, a |-> 255]

OlImages == [1..(OlSide * OlSide) -> {Transparent, Opaque}]

OlParamObjects ==
  [thickness : {Absent, 0, 1, 2}, position : {"outside", "center", "inside"},
   opacity : {Absent, 500}, color : {255}, threshold : {0}]

SetMin(S) == CHOOSE m \in S : \A x \in S : m <= x

\* idx = y * width + x, counted from 1
Idx(x, y, width) == y * width + x + 1

\* the cells both passes go through, in the order of the forward pass
InnerCells(width, height) ==
  IF width < 3 \/ height < 3 THEN <<>>
  ELSE [k \in 1..((width - 2) * (height - 2)) |->
          Idx(1 + ((k - 1) % (width - 2)), 1 + ((k - 1) \div (width - 2)),
              width)]

Reversed(seq) == [k \in 1..Len(seq) |-> seq[Len(seq) + 1 - k]]

RECURSIVE ChamferPass(_, _, _, _)
\* one pass, in place: dir is -1 for the forward pass (the row above and the
\* cell to the left) and 1 for the backward pass
ChamferPass(dist, cells, dir, width) ==
  IF cells = <<>> THEN dist
  ELSE LET at == Head(cells)
           new == SetMin({dist[at],
                          dist[at + dir * width + dir] + Diagonal,
                          dist[at + dir * width] + Milli,
                          dist[at + dir * width - dir] + Diagonal,
                          dist[at + dir] + Milli})
       IN ChamferPass([dist EXCEPT ![at] = new], Tail(cells), dir, width)

chamferDistance(dist, width, height) ==
  ChamferPass(ChamferPass(dist, InnerCells(width, height), -1, width),
              Reversed(InnerCells(width, height)), 1, width)

\* lines 276-294: the field chamferDistance starts from, 0 at the seeds (the
\* pixels with alpha > 0.1 for the outer field, the others for the inner
\* field) and 1e10 elsewhere
DistanceField(input, inner) ==
  [i \in DOMAIN input |->
     IF (input[i].a * 10 > 255) # inner THEN 0 ELSE Far]

smoothstep(edge0, edge1, x) ==
  LET q == ((x - edge0) * Milli) \div (edge1 - edge0)
      t == IF q < 0 THEN 0 ELSE IF q > Milli THEN Milli ELSE q
  IN (t * t * (3 * Milli - 2 * t)) \div (Milli * Milli)

\* Math.round of n / Milli
RoundMilli(n) == (n + Milli \div 2) \div Milli

\* executeOutlineCanvas, lines 266-337
executeOutlineCanvas(input, opts) ==
  LET isInside(i) == input[i].a * 10 > 255
      outerDist == chamferDistance(DistanceField(input, FALSE), OlSide, OlSide)
      innerDist == chamferDistance(DistanceField(input, TRUE), OlSide, OlSide)
      innerEdge == opts.thickness * opts.positionValue
      outerEdge == opts.thickness * (Milli - opts.positionValue)
      low == -outerEdge
      high == innerEdge
      half == Milli \div 2
      pixel(i) ==
        LET signedDist == (IF isInside(i) THEN -innerDist[i] ELSE outerDist[i])
                          + opts.threshold
            outlineAlpha ==
              IF signedDist >= low - half /\ signedDist <= high + half
              THEN (smoothstep(low - half, low + half, signedDist)
                    * (Milli - smoothstep(high - half, high + half, signedDist)))
                   \div Milli
              ELSE 0
            blendAlpha == (outlineAlpha * opts.opacity) \div Milli
        IN [v |-> RoundMilli(input[i].v * (Milli - blendAlpha)
                             + opts.c * blendAlpha),
            a |-> IF input[i].a * Milli >= blendAlpha * 255 THEN input[i].a
                  ELSE RoundMilli(blendAlpha * 255)]
  IN [i \in DOMAIN input |-> pixel(i)]

\* line 19: (params.thickness as number) || 4
Thickness(params) ==
  IF params.thickness = Absent \/ params.thickness = 0 THEN DefaultThickness
  ELSE params.thickness

\* executeOutline, lines 19-41
executeOutline(input, params) ==
  executeOutlineCanvas(input,
    [thickness |-> Thickness(params),
     c |-> params.color,
     opacity |-> IF params.opacity = Absent THEN Milli ELSE params.opacity,
     positionValue |-> IF params.position = "outside" THEN Milli
                       ELSE IF params.position = "center" THEN Milli \div 2
                       ELSE 0,
     threshold |-> IF params.threshold = Absent THEN 0 ELSE params.threshold])

OlInit ==
  /\ olPc = "drawn"
  /\ olImage \in OlImages
  /\ olParams \in OlParamObjects
  /\ olOut = <<>>
  /\ nodes = <<>>
  /\ edges = <<>>
  /\ GraphIdle
  /\ RunIdle
  /\ HashIdle
  /\ GpuIdle
  /\ ExecIdle
  /\ EditorIdle
  /\ RbIdle
  /\ RzIdle
  /\ MoreIdle

CallExecuteOutline ==
  /\ olPc = "drawn"
  /\ olPc' = "returned"
  /\ olOut' = executeOutline(olImage, olParams)
  /\ UNCHANGED <<olImage, olParams>>
  /\ UNCHANGED <<nodes, edges>>
  /\ UNCHANGED <<graphVars, runVars, hashVars, gpuVars, execVars, editorVars,
                 rbVars, rzVars, moreVars>>

OlNext == CallExecuteOutline

SpecOutline == OlInit /\ [][OlNext]_vars

\* C24: with params.thickness = 0 and threshold 0 the frame executeOutline
\* returns has the pixels of its input, whatever the image, the colour, the
\* opacity and the position
C24_ZeroThicknessIsNoOp ==
  (olPc = "returned" /\ olParams.thickness = 0 /\ olParams.threshold = 0)
     => olOut = olImage

\* ------------------------------------------------------------ SpecResize
\* the input node of runPipeline (runner.ts lines 142-146) and resizeBitmap
\* (utils/image.ts): the size of the node's output frame
MaxSide == 6

DefaultMaxSize == 2048

\* the sides of the source image: small ones and those of the 1024 x 512
\* example
SourceSides == (1..MaxSide) \cup {512, 1024}

RzParamObjects ==
  [maxSize : {Absent, 2, 4, 512}, fit : {"", "contain", "cover", "fill"}]

Larger(a, b) == IF a >= b THEN a ELSE b
Smaller(a, b) == IF a <= b THEN a ELSE b

\* Math.round(side * (maxSize / by)), for by > 0
RoundScaled(side, maxSize, by) == (2 * side * maxSize + by) \div (2 * by)

Size(w, h) == [width |-> w, height |-> h, threw |-> FALSE]

\* createImageBitmap(bitmap, {resizeWidth, resizeHeight}) rejects when one of
\* them is 0
createImageBitmap(w, h) ==
  IF w = 0 \/ h = 0 THEN [width |-> 0, height |-> 0, threw |-> TRUE]
  ELSE Size(w, h)

\* utils/image.ts lines 22-44
resizeBitmap(width, height, maxSize, fit) ==
  IF width <= maxSize /\ height <= maxSize THEN Size(width, height)
  ELSE IF fit = "contain"
  THEN createImageBitmap(
         RoundScaled(width, maxSize, Larger(width, height)),
         RoundScaled(height, maxSize, Larger(width, height)))
  ELSE IF fit = "cover"
  THEN createImageBitmap(
         RoundScaled(width, maxSize, Smaller(width, height)),
         RoundScaled(height, maxSize, Smaller(width, height)))
  ELSE createImageBitmap(maxSize, maxSize)

\* runner.ts line 143: (params.maxSize as number) || 2048
MaxSizeOf(params) ==
  IF params.maxSize = Absent THEN DefaultMaxSize ELSE params.maxSize

\* runner.ts line 144: params.fit || 'contain'
FitOf(params) == IF params.fit = "" THEN "contain" ELSE params.fit

RzInit ==
  /\ rzPc = "drawn"
  /\ rzSource \in [width : SourceSides, height : SourceSides]
  /\ rzParams \in RzParamObjects
  /\ rzOut = <<>>
  /\ nodes = <<>>
  /\ edges = <<>>
  /\ GraphIdle
  /\ RunIdle
  /\ HashIdle
  /\ GpuIdle
  /\ ExecIdle
  /\ EditorIdle
  /\ RbIdle
  /\ OlIdle
  /\ MoreIdle

\* runner.ts lines 142-146
ProcessInputNode ==
  /\ rzPc = "drawn"
  /\ rzPc' = "returned"
  /\ rzOut' = resizeBitmap(rzSource.width, rzSource.height, MaxSizeOf(rzParams),
                           FitOf(rzParams))
  /\ UNCHANGED <<rzSource, rzParams>>
  /\ UNCHANGED <<nodes, edges>>
  /\ UNCHANGED <<graphVars, runVars, hashVars, gpuVars, execVars, editorVars,
                 rbVars, olVars, moreVars>>

RzNext == ProcessInputNode

SpecResize == RzInit /\ [][RzNext]_vars

RzWithin ==
  /\ rzSource.width <= MaxSizeOf(rzParams)
  /\ rzSource.height <= MaxSizeOf(rzParams)

RzProduced == rzPc = "returned" /\ ~rzOut.threw

\* contain: the larger side is maxSize and the sides keep the ratio of the
\* source's, up to the rounding of each side to a whole pixel
ContainAsClaimed ==
  (RzProduced /\ FitOf(rzParams) = "contain" /\ ~RzWithin) =>
     /\ Larger(rzOut.width, rzOut.height) = MaxSizeOf(rzParams)
     /\ LET d == rzOut.width * rzSource.height - rzOut.height * rzSource.width
        IN 2 * (IF d < 0 THEN -d ELSE d) <= rzSource.width + rzSource.height
     /\ (rzSource = [width |-> 1024, height |-> 512]
           /\ MaxSizeOf(rzParams) = 512)
          => (rzOut.width = 512 /\ rzOut.height = 256)

PassThroughAsClaimed ==
  (RzProduced /\ RzWithin) =>
     (rzOut.width = rzSource.width /\ rzOut.height = rzSource.height)

\* C25: whatever the fit mode and the source size, the output frame of the
\* input node is at most maxSize wide and high; contain keeps the ratio with
\* the larger side at maxSize; a source within the bound is passed through
C25_OutputWithinMaxSize ==
  /\ RzProduced =>
       /\ rzOut.width <= MaxSizeOf(rzParams)
       /\ rzOut.height <= MaxSizeOf(rzParams)
  /\ ContainAsClaimed
  /\ PassThroughAsClaimed

\* no call of run() is in flight or about to be made by a timer, and the
\* call that ended last went through the whole pipeline
RunsOver ==
  /\ \A q \in 1..Len(runs) : ~InFlight(runs[q])
  /\ timers = 0
  /\ \E q \in 1..Len(runs) : runs[q].last /\ runs[q].pc = "finished"

\* C37: once the runs are over, the output of an input node that is done or
\* cached is the image last set for it or was made from that image
C37_InputOutputFromCurrentImage ==
  RunsOver =>
     \A i \in EdInputIds :
        storeStates[i].status \in {"done", "cached"} =>
           storeStates[i].output.bitmap \in
              {inputImages[i].bitmap, Processed(inputImages[i].bitmap, i)}

\* C38: isRunning is TRUE exactly while a call of run() is in flight, and
\* abortController is then the controller of that call, so that stop()
\* aborts the call that is executing
\* (a call still awaiting initGpu has not made its controller yet and is
\* not counted as executing)
Executing(run) == run.pc = "await"

C38_RunningFlagTracksRun ==
  /\ isRunning <=> \E q \in 1..Len(runs) : Executing(runs[q])
  /\ \A q \in 1..Len(runs) : Executing(runs[q]) => abortController = q

\* ------------------------------------------ further claims, SpecRemoveBg
\* C33: the segmenter an invocation runs its inference on was loaded for the
\* dtype of the request and, when the request names a device, for that
\* device or (after a failed load on webgpu) for wasm
C33_SegmenterKeyedByDeviceAndDtype ==
  rbPc = "infer" =>
     /\ loadedDtype = rbDtype
     /\ rbDevice = "wasm" => segmenter = "wasm"
     /\ (rbDevice = "webgpu" /\ segmenter # "webgpu") =>
          \E k \in 1..Len(rbTries) :
             rbTries[k] = RbTry("load", "webgpu", FALSE)

\* ----------------------------------------------- further claims, SpecGpu
\* the calls of initGpu that went on to ask for an adapter and a device
RequestingCalls == { c \in 1..Len(gpuCalls) : gpuCalls[c].requested }

\* C32: however the calls of initGpu interleave, a device is requested at
\* most once until a lost event resets the guard, and while no device was
\* lost all calls that have returned have returned the same device
C32_SingleInitGuard ==
  /\ Cardinality(RequestingCalls) <= Cardinality(gpuLost) + 1
  /\ gpuLost = {} =>
       \A c, d \in 1..Len(gpuCalls) :
          (gpuCalls[c].at = "returned" /\ gpuCalls[d].at = "returned")
             => gpuCalls[c].returned = gpuCalls[d].returned

\* --------------------------------------------------------- SpecPipeMagic
\* index.ts: the calls of run() on one PipeMagic instance, over gpu.ts
MaxPmRuns == 3   \* calls of run()

\* a call of run(): where it is, the call of initGpu it made (0 for none),
\* whether its input is an ImageBitmap already, and the device it handed
\* to runPipeline
PmRun(at, init, given, device) ==
  [at |-> at, init |-> init, given |-> given, device |-> device]

PmInit == GpuInit

PmOthersUnchanged ==
  /\ UNCHANGED <<nodes, edges>>
  /\ UNCHANGED <<graphVars, runVars, hashVars, execVars, editorVars>>
  /\ UNCHANGED <<rbVars, olVars, rzVars, upVars, sgVars, ogVars,
                 chVars, jfVars>>

\* lines 21-28: the input is converted when it is no ImageBitmap, and
\* runPipeline is called with getGpuDevice()
ConvertAndRun(run) ==
  IF run.given
  THEN PmRun("running", run.init, run.given, gpuDevice)
  ELSE PmRun("bitmap", run.init, run.given, NoDevice)

\* run() is called: lines 15-16 up to the await of initGpu, or lines 15-28
\* up to the await of createImageBitmap or the call of runPipeline
CallRun ==
  \E given \in BOOLEAN :
    /\ Len(pmRuns) < MaxPmRuns
    /\ IF ~pmInitialized
       THEN /\ InitGpuCalled
            /\ pmRuns' = Append(pmRuns,
                  PmRun("initGpu", Len(gpuCalls) + 1, given, NoDevice))
       ELSE /\ pmRuns' = Append(pmRuns,
                  ConvertAndRun(PmRun("called", 0, given, NoDevice)))
            /\ UNCHANGED gpuVars
    /\ UNCHANGED pmInitialized
    /\ PmOthersUnchanged

\* lines 16-28: the promise of initGpu has resolved and the call goes on
InitGpuReturns ==
  \E r \in 1..Len(pmRuns) :
    /\ pmRuns[r].at = "initGpu"
    /\ gpuCalls[pmRuns[r].init].at = "returned"
    /\ pmInitialized' = TRUE
    /\ pmRuns' = [pmRuns EXCEPT ![r] = ConvertAndRun(@)]
    /\ UNCHANGED gpuVars
    /\ PmOthersUnchanged

\* lines 25-28: createImageBitmap resolves
CreateImageBitmapResolves ==
  \E r \in 1..Len(pmRuns) :
    /\ pmRuns[r].at = "bitmap"
    /\ pmRuns' = [pmRuns EXCEPT ![r] =
                    PmRun("running", @.init, @.given, gpuDevice)]
    /\ UNCHANGED <<pmInitialized, gpuVars>>
    /\ PmOthersUnchanged

\* line 25: createImageBitmap rejects, and so does run()
CreateImageBitmapRejects ==
  \E r \in 1..Len(pmRuns) :
    /\ pmRuns[r].at = "bitmap"
    /\ pmRuns' = [pmRuns EXCEPT ![r].at = "rejected"]
    /\ UNCHANGED <<pmInitialized, gpuVars>>
    /\ PmOthersUnchanged

PmNext ==
  \/ CallRun
  \/ InitGpuReturns
  \/ CreateImageBitmapResolves
  \/ CreateImageBitmapRejects
  \/ AdapterFound
  \/ AdapterMissing
  \/ DeviceGranted
  \/ DeviceRefused
  \/ DeviceLost

SpecPipeMagic == PmInit /\ [][PmNext]_vars

\* C40: only the first call of run() on the instance calls initGpu
C40_InitGpuOnFirstRunOnly ==
  \A r \in 2..Len(pmRuns) : pmRuns[r].init = 0

\* the part of C40 about the calls of run() made once the first one has gone
\* past initGpu: none of them calls initGpu, before or after a lost event
LaterRunsDoNotInit ==
  [][\A r \in 1..Len(pmRuns') :
        (r > Len(pmRuns) /\ pmInitialized) => pmRuns'[r].init = 0]_vars

\* ---------------------------------------------------------- SpecUpscaler
\* websr.ts: getUpscaler and the module's singleton state
MaxUpCalls == 3   \* calls of getUpscaler

UpModels == {"cnn-2x-s", "cnn-2x-m"}
UpContentTypes == {"rl", "an"}

\* line 92, `${model}-${contentType}`: the two parts are kept as a pair, a
\* model name and a content type never give the string of another pair
UpKey(model, contentType) == <<model, contentType>>

\* a call of getUpscaler: where it is, its key, whether fetchWeights found
\* the weights in the cache, and the instance it returned
UpCall(at, key, cached, got) ==
  [at |-> at, key |-> key, cached |-> cached, got |-> got]

UpInit ==
  /\ UpIdle
  /\ PmIdle
  /\ SgIdle
  /\ OgIdle
  /\ ChIdle
  /\ JfIdle
  /\ nodes = <<>>
  /\ edges = <<>>
  /\ GraphIdle
  /\ RunIdle
  /\ HashIdle
  /\ GpuIdle
  /\ ExecIdle
  /\ EditorIdle
  /\ RbIdle
  /\ OlIdle
  /\ RzIdle

UpOthersUnchanged ==
  /\ UNCHANGED <<nodes, edges>>
  /\ UNCHANGED <<graphVars, runVars, hashVars, gpuVars, execVars, editorVars>>
  /\ UNCHANGED <<rbVars, olVars, rzVars, pmVars, sgVars, ogVars,
                 chVars, jfVars>>

\* lines 84-94: initWebGPU is awaited when the module has no device yet,
\* else fetchWeights is called (lines 47-49) and awaited
AfterScript(call, device, cache) ==
  IF ~device
  THEN [call EXCEPT !.at = "webgpu"]
  ELSE [call EXCEPT !.at = "weights", !.cached = call.key \in cache]

\* faulty variant: a different key builds another instance
ReuseSwitchCreateRebuilding(key) ==
  IF wsInstance # 0 /\ currentKey = key
  THEN [inst |-> wsInstance, key |-> currentKey, built |-> upBuilt,
        switches |-> upSwitches]
  ELSE [inst |-> upBuilt + 1, key |-> key, built |-> upBuilt + 1,
        switches |-> upSwitches]

\* lines 97-117: the instance, the current key, the number of instances
\* built and the calls of switchNetwork after step 4
ReuseSwitchCreate(key) ==
  IF wsInstance # 0 /\ currentKey = key
  THEN [inst |-> wsInstance, key |-> currentKey, built |-> upBuilt,
        switches |-> upSwitches]
  ELSE IF wsInstance # 0 /\ currentKey # key
  THEN [inst |-> wsInstance, key |-> key, built |-> upBuilt,
        switches |-> Append(upSwitches, [on |-> wsInstance, key |-> key])]
  ELSE [inst |-> upBuilt + 1, key |-> key, built |-> upBuilt + 1,
        switches |-> upSwitches]

\* getUpscaler is called: lines 75-79, up to the await of loadScript, whose
\* promise is resolved already when the script has loaded (line 23)
CallGetUpscaler ==
  \E model \in UpModels, contentType \in UpContentTypes :
    /\ Len(upCalls) < MaxUpCalls
    /\ upCalls' = Append(upCalls,
          UpCall(IF scriptLoaded THEN "loaded" ELSE "script",
                 UpKey(model, contentType), FALSE, 0))
    /\ UNCHANGED <<scriptLoaded, wsGpuDevice, wsInstance, currentKey,
                   weightsCache, upBuilt, upSwitches>>
    /\ UpOthersUnchanged

\* lines 23-37, 79-94: loadScript resolves
ScriptLoads ==
  \E c \in 1..Len(upCalls) :
    /\ upCalls[c].at \in {"script", "loaded"}
    /\ scriptLoaded' = TRUE
    /\ upCalls' = [upCalls EXCEPT ![c] =
                     AfterScript(@, wsGpuDevice, weightsCache)]
    /\ UNCHANGED <<wsGpuDevice, wsInstance, currentKey, weightsCache, upBuilt,
                   upSwitches>>
    /\ UpOthersUnchanged

\* lines 39, 81: the script fails to load, or leaves no WebSR global
ScriptFails ==
  \E c \in 1..Len(upCalls) :
    /\ upCalls[c].at = "script"
    /\ upCalls' = [upCalls EXCEPT ![c].at = "rejected"]
    /\ UNCHANGED <<scriptLoaded, wsGpuDevice, wsInstance, currentKey,
                   weightsCache, upBuilt, upSwitches>>
    /\ UpOthersUnchanged

\* lines 86-94: initWebGPU resolves with a device
WebGpuResolves ==
  \E c \in 1..Len(upCalls) :
    /\ upCalls[c].at = "webgpu"
    /\ wsGpuDevice' = TRUE
    /\ upCalls' = [upCalls EXCEPT ![c] = AfterScript(@, TRUE, weightsCache)]
    /\ UNCHANGED <<scriptLoaded, wsInstance, currentKey, weightsCache, upBuilt,
                   upSwitches>>
    /\ UpOthersUnchanged

\* lines 86-87: initWebGPU resolves with no device, or rejects
WebGpuFails ==
  \E c \in 1..Len(upCalls) :
    /\ upCalls[c].at = "webgpu"
    /\ upCalls' = [upCalls EXCEPT ![c].at = "rejected"]
    /\ UNCHANGED <<scriptLoaded, wsGpuDevice, wsInstance, currentKey,
                   weightsCache, upBuilt, upSwitches>>
    /\ UpOthersUnchanged

\* lines 52-56, 94-117: the weights arrive and step 4 runs to its return
WeightsResolve ==
  \E c \in 1..Len(upCalls) :
    /\ upCalls[c].at = "weights"
    /\ weightsCache' = weightsCache \cup {upCalls[c].key}
    /\ LET after == ReuseSwitchCreate(upCalls[c].key)
       IN /\ wsInstance' = after.inst
          /\ currentKey' = after.key
          /\ upBuilt' = after.built
          /\ upSwitches' = after.switches
          /\ upCalls' = [upCalls EXCEPT ![c].at = "returned",
                                        ![c].got = after.inst]
    /\ UNCHANGED <<scriptLoaded, wsGpuDevice>>
    /\ UpOthersUnchanged

\* lines 52-54: the fetch of the weights fails
WeightsFail ==
  \E c \in 1..Len(upCalls) :
    /\ upCalls[c].at = "weights"
    /\ ~upCalls[c].cached
    /\ upCalls' = [upCalls EXCEPT ![c].at = "rejected"]
    /\ UNCHANGED <<scriptLoaded, wsGpuDevice, wsInstance, currentKey,
                   weightsCache, upBuilt, upSwitches>>
    /\ UpOthersUnchanged

\* lines 103, 110: switchNetwork or the constructor of WebSR throws
StepFourThrows ==
  \E c \in 1..Len(upCalls) :
    /\ upCalls[c].at = "weights"
    /\ ~(wsInstance # 0 /\ currentKey = upCalls[c].key)
    /\ weightsCache' = weightsCache \cup {upCalls[c].key}
    /\ upCalls' = [upCalls EXCEPT ![c].at = "rejected"]
    /\ UNCHANGED <<scriptLoaded, wsGpuDevice, wsInstance, currentKey, upBuilt,
                   upSwitches>>
    /\ UpOthersUnchanged

UpNext ==
  \/ CallGetUpscaler
  \/ ScriptLoads
  \/ ScriptFails
  \/ WebGpuResolves
  \/ WebGpuFails
  \/ WeightsResolve
  \/ WeightsFail
  \/ StepFourThrows

SpecUpscaler == UpInit /\ [][UpNext]_vars

\* the call c of getUpscaler returns in this step
UpReturns(c) == upCalls[c].at = "weights" /\ upCalls'[c].at = "returned"

\* C34: at most one WebSR instance is ever constructed; a call that returns
\* builds it when there is none, returns it unchanged when its key is the
\* current key, and else calls switchNetwork on it; the current key is then
\* the key of that call
C34_OneInstanceSwitched ==
  [][/\ upBuilt' <= 1
     /\ \A c \in 1..Len(upCalls) :
          UpReturns(c) =>
            /\ currentKey' = upCalls[c].key
            /\ upCalls'[c].got = wsInstance'
            /\ wsInstance' # 0
            /\ IF wsInstance = 0
               THEN upBuilt' = upBuilt + 1 /\ upSwitches' = upSwitches
               ELSE /\ wsInstance' = wsInstance
                    /\ upBuilt' = upBuilt
                    /\ IF currentKey = upCalls[c].key
                       THEN upSwitches' = upSwitches
                       ELSE upSwitches' = Append(upSwitches,
                              [on |-> wsInstance, key |-> upCalls[c].key])]_vars

\* three calls have returned: one built the instance, one switched it to
\* another key and one got it back with the current key
C34_Witness ==
  /\ upBuilt = 1
  /\ Len(upSwitches) = 1
  /\ \A c \in 1..MaxUpCalls :
        c <= Len(upCalls) /\ upCalls[c].at = "returned" /\ upCalls[c].got = 1

\* --------------------------------------------------------- SpecSegmenter
\* part_002: overlapping calls of getSegmenter (the device is left out: it
\* takes no part in what a call is given)
MaxSgCalls == 3   \* calls of getSegmenter

\* a load, lines 17-72: its dtype and whether it is pending, resolved or
\* rejected
SgLoad(dtype, at) == [dtype |-> dtype, at |-> at]

\* a call of getSegmenter: its dtype, the load it awaits (0 for none), where
\* it is and the segmenter it was given
SgCall(dtype, load, at, got) ==
  [dtype |-> dtype, load |-> load, at |-> at, got |-> got]

SgInit ==
  /\ SgIdle
  /\ PmIdle
  /\ UpIdle
  /\ OgIdle
  /\ ChIdle
  /\ JfIdle
  /\ nodes = <<>>
  /\ edges = <<>>
  /\ GraphIdle
  /\ RunIdle
  /\ HashIdle
  /\ GpuIdle
  /\ ExecIdle
  /\ EditorIdle
  /\ RbIdle
  /\ OlIdle
  /\ RzIdle

SgOthersUnchanged ==
  /\ UNCHANGED <<nodes, edges>>
  /\ UNCHANGED <<graphVars, runVars, hashVars, gpuVars, execVars, editorVars>>
  /\ UNCHANGED <<rbVars, olVars, rzVars, pmVars, upVars, ogVars,
                 chVars, jfVars>>

\* getSegmenter is called: lines 10-17 and 75, up to its return or await
CallGetSegmenter ==
  \E dtype \in RbDtypes :
    /\ Len(sgCalls) < MaxSgCalls
    /\ IF sgSegmenter # "" /\ sgLoadedDtype = dtype
       THEN /\ sgCalls' = Append(sgCalls,
                             SgCall(dtype, 0, "returned", sgSegmenter))
            /\ UNCHANGED <<sgSegmenter, loadingPromise, sgLoads>>
       ELSE IF loadingPromise # 0 /\ sgLoadedDtype = dtype
       THEN /\ sgCalls' = Append(sgCalls,
                             SgCall(dtype, loadingPromise, "await", ""))
            /\ UNCHANGED <<sgSegmenter, loadingPromise, sgLoads>>
       ELSE /\ sgSegmenter' = ""
            /\ sgLoads' = Append(sgLoads, SgLoad(dtype, "pending"))
            /\ loadingPromise' = Len(sgLoads) + 1
            /\ sgCalls' = Append(sgCalls,
                             SgCall(dtype, Len(sgLoads) + 1, "awaitOwn", ""))
    /\ UNCHANGED sgLoadedDtype
    /\ SgOthersUnchanged

\* lines 53-72, 76-77, 11: pipeline(...) resolves; the load sets segmenter
\* and loadedDtype and resolves with the segmenter, and so does every call
\* that awaits its promise
SgLoadResolves ==
  \E l \in 1..Len(sgLoads) :
    /\ sgLoads[l].at = "pending"
    /\ sgLoads' = [sgLoads EXCEPT ![l].at = "resolved"]
    /\ sgSegmenter' = sgLoads[l].dtype
    /\ sgLoadedDtype' = sgLoads[l].dtype
    /\ sgCalls' = [c \in 1..Len(sgCalls) |->
                     IF sgCalls[c].load = l
                     THEN [sgCalls[c] EXCEPT !.at = "returned",
                                             !.got = sgLoads[l].dtype]
                     ELSE sgCalls[c]]
    /\ UNCHANGED loadingPromise
    /\ SgOthersUnchanged

\* lines 66-68, 78-80, 11: the load rejects; the call that started it sets
\* loadingPromise to null and rethrows, the calls that were handed the
\* promise reject
SgLoadRejects ==
  \E l \in 1..Len(sgLoads) :
    /\ sgLoads[l].at = "pending"
    /\ sgLoads' = [sgLoads EXCEPT ![l].at = "rejected"]
    /\ loadingPromise' = 0
    /\ sgCalls' = [c \in 1..Len(sgCalls) |->
                     IF sgCalls[c].load = l
                     THEN [sgCalls[c] EXCEPT !.at = "rejected"]
                     ELSE sgCalls[c]]
    /\ UNCHANGED <<sgSegmenter, sgLoadedDtype>>
    /\ SgOthersUnchanged

SgNext ==
  \/ CallGetSegmenter
  \/ SgLoadResolves
  \/ SgLoadRejects

SpecSegmenter == SgInit /\ [][SgNext]_vars

\* C39: a call that resolves is given a segmenter loaded with the dtype the
\* call asked for
C39_SegmenterOfRequestedDtype ==
  \A c \in 1..Len(sgCalls) :
     sgCalls[c].at = "returned" => sgCalls[c].got = sgCalls[c].dtype

\* -------------------------------------------------------- SpecOutlineGpu
\* executors/outline.ts executeOutlineGpu with gpu.ts bitmapToTexture and
\* textureToBitmap: the textures and buffers an invocation creates and
\* destroys
MaxOgDim == 4   \* the larger side of the input frame

RECURSIVE CeilLog2(_)
\* Math.ceil(Math.log2(n)) for n >= 1
CeilLog2(n) == IF n <= 1 THEN 0 ELSE 1 + CeilLog2((n + 1) \div 2)

OgCreate(r) == [op |-> "create", r |-> r]
OgDestroy(r) == [op |-> "destroy", r |-> r]
OgSync == [op |-> "sync", r |-> ""]
OgAbortCheck == [op |-> "abortCheck", r |-> ""]
OgAwait == [op |-> "await", r |-> ""]
OgReturn == [op |-> "return", r |-> ""]

RECURSIVE JfaLoop(_)
\* lines 152-175: numSteps iterations, each starting with the abort check
JfaLoop(n) == IF n = 0 THEN <<>> ELSE <<OgAbortCheck, OgSync>> \o JfaLoop(n - 1)

\* runJfaPass, lines 128-193: seed pass, flood passes, distance pass
runJfaPass(numSteps) == <<OgSync>> \o JfaLoop(numSteps) \o <<OgSync>>

\* gpu.ts lines 40-57: the texture is created, then the bitmap copied
bitmapToTexture == <<OgCreate("inputTexture"), OgSync>>

\* gpu.ts lines 59-94: staging buffer, copy, mapAsync, compaction, unmap and
\* destroy, createImageBitmap
textureToBitmap ==
  <<OgCreate("stagingBuffer"), OgSync, OgAwait, OgSync,
    OgDestroy("stagingBuffer"), OgAwait>>

\* executeOutlineGpu, lines 60-259
executeOutlineGpu(maxDim) ==
  bitmapToTexture
  \o <<OgCreate("jfaTexA"), OgCreate("jfaTexB"), OgCreate("outerDistTex"),
       OgCreate("innerDistTex"), OgCreate("outputTexture"), OgSync,
       OgCreate("seedParamsBuf"), OgCreate("stepParamsBuf")>>
  \o runJfaPass(CeilLog2(maxDim))
  \o runJfaPass(CeilLog2(maxDim))
  \o <<OgSync, OgCreate("compParamsBuf"), OgSync>>
  \o textureToBitmap
  \o <<OgDestroy("inputTexture"), OgDestroy("jfaTexA"), OgDestroy("jfaTexB"),
       OgDestroy("outerDistTex"), OgDestroy("innerDistTex"),
       OgDestroy("outputTexture"), OgDestroy("seedParamsBuf"),
       OgDestroy("stepParamsBuf"), OgDestroy("compParamsBuf"), OgReturn>>

OgStep == executeOutlineGpu(ogDim)[ogPos]

OgRunning == ogResult = "pending"

OgInit ==
  /\ OgIdle
  /\ PmIdle
  /\ UpIdle
  /\ SgIdle
  /\ ChIdle
  /\ JfIdle
  /\ nodes = <<>>
  /\ edges = <<>>
  /\ GraphIdle
  /\ RunIdle
  /\ HashIdle
  /\ GpuIdle
  /\ ExecIdle
  /\ EditorIdle
  /\ RbIdle
  /\ OlIdle
  /\ RzIdle

OgOthersUnchanged ==
  /\ UNCHANGED <<nodes, edges>>
  /\ UNCHANGED <<graphVars, runVars, hashVars, gpuVars, execVars, editorVars>>
  /\ UNCHANGED <<rbVars, olVars, rzVars, pmVars, upVars, sgVars,
                 chVars, jfVars>>

\* executeOutlineGpu is called with a frame and a signal
CallExecuteOutlineGpu ==
  \E maxDim \in 1..MaxOgDim, signalled \in BOOLEAN :
    /\ ogResult = "idle"
    /\ ogDim' = maxDim
    /\ ogAborted' = signalled
    /\ ogPos' = 1
    /\ ogResult' = "pending"
    /\ UNCHANGED ogLive
    /\ OgOthersUnchanged

\* device.createTexture / device.createBuffer
OgCreates ==
  /\ OgRunning
  /\ OgStep.op = "create"
  /\ ogLive' = ogLive \cup {OgStep.r}
  /\ ogPos' = ogPos + 1
  /\ UNCHANGED <<ogDim, ogAborted, ogResult>>
  /\ OgOthersUnchanged

\* texture.destroy() / buffer.destroy()
OgDestroys ==
  /\ OgRunning
  /\ OgStep.op = "destroy"
  /\ ogLive' = ogLive \ {OgStep.r}
  /\ ogPos' = ogPos + 1
  /\ UNCHANGED <<ogDim, ogAborted, ogResult>>
  /\ OgOthersUnchanged

\* a stretch of calls on the device goes through
OgSyncDone ==
  /\ OgRunning
  /\ OgStep.op = "sync"
  /\ ogPos' = ogPos + 1
  /\ UNCHANGED <<ogDim, ogLive, ogAborted, ogResult>>
  /\ OgOthersUnchanged

\* a call on the device throws
OgSyncThrows ==
  /\ OgRunning
  /\ OgStep.op = "sync"
  /\ ogResult' = "Error"
  /\ UNCHANGED <<ogDim, ogPos, ogLive, ogAborted>>
  /\ OgOthersUnchanged

\* line 153
OgChecksAbort ==
  /\ OgRunning
  /\ OgStep.op = "abortCheck"
  /\ IF ogAborted
     THEN ogResult' = "AbortError" /\ UNCHANGED ogPos
     ELSE ogPos' = ogPos + 1 /\ UNCHANGED ogResult
  /\ UNCHANGED <<ogDim, ogLive, ogAborted>>
  /\ OgOthersUnchanged

\* mapAsync / createImageBitmap resolves
OgAwaitResolves ==
  /\ OgRunning
  /\ OgStep.op = "await"
  /\ ogPos' = ogPos + 1
  /\ UNCHANGED <<ogDim, ogLive, ogAborted, ogResult>>
  /\ OgOthersUnchanged

\* mapAsync / createImageBitmap rejects
OgAwaitRejects ==
  /\ OgRunning
  /\ OgStep.op = "await"
  /\ ogResult' = "Error"
  /\ UNCHANGED <<ogDim, ogPos, ogLive, ogAborted>>
  /\ OgOthersUnchanged

\* line 258
OgReturns ==
  /\ OgRunning
  /\ OgStep.op = "return"
  /\ ogResult' = "returned"
  /\ UNCHANGED <<ogDim, ogPos, ogLive, ogAborted>>
  /\ OgOthersUnchanged

\* the caller aborts the signal while executeOutlineGpu is suspended
OgAbort ==
  /\ OgRunning
  /\ OgStep.op = "await"
  /\ ~ogAborted
  /\ ogAborted' = TRUE
  /\ UNCHANGED <<ogDim, ogPos, ogLive, ogResult>>
  /\ OgOthersUnchanged

OgNext ==
  \/ CallExecuteOutlineGpu
  \/ OgCreates
  \/ OgDestroys
  \/ OgSyncDone
  \/ OgSyncThrows
  \/ OgChecksAbort
  \/ OgAwaitResolves
  \/ OgAwaitRejects
  \/ OgReturns
  \/ OgAbort

SpecOutlineGpu == OgInit /\ [][OgNext]_vars

\* C31: when executeOutlineGpu has returned or thrown, every texture and
\* buffer it created, the staging buffer of textureToBitmap included, has
\* been destroyed
C31_ReleasedOnEveryExit ==
  ogResult \in {"returned", "Error", "AbortError"} => ogLive = {}

\* the part of C31 that holds: an invocation that returns has destroyed
\* everything it created
ReleasedOnReturn == ogResult = "returned" => ogLive = {}

\* an invocation leaves by the abort check of line 153 with textures and
\* buffers live
LeakOnAbort == ogResult = "AbortError" /\ ogLive # {}

\* ----------------------------------------------------------- SpecChamfer
\* executors/outline.ts: the distance fields of executeOutlineCanvas on
\* images of every size up to MaxChSide x MaxChSide
MaxChSide == 4

ChInit ==
  /\ chWidth \in 1..MaxChSide
  /\ chHeight \in 1..MaxChSide
  /\ chImage \in [1..(chWidth * chHeight) -> {Transparent, Opaque}]
  /\ chInner \in BOOLEAN
  /\ chDist = <<>>
  /\ PmIdle
  /\ UpIdle
  /\ SgIdle
  /\ OgIdle
  /\ JfIdle
  /\ nodes = <<>>
  /\ edges = <<>>
  /\ GraphIdle
  /\ RunIdle
  /\ HashIdle
  /\ GpuIdle
  /\ ExecIdle
  /\ EditorIdle
  /\ RbIdle
  /\ OlIdle
  /\ RzIdle

\* lines 276-294: one of the two fields is filled and swept
CallChamferDistance ==
  /\ chDist = <<>>
  /\ chDist' = chamferDistance(DistanceField(chImage, chInner),
                               chWidth, chHeight)
  /\ UNCHANGED <<chWidth, chHeight, chImage, chInner>>
  /\ UNCHANGED <<nodes, edges>>
  /\ UNCHANGED <<graphVars, runVars, hashVars, gpuVars, execVars, editorVars>>
  /\ UNCHANGED <<rbVars, olVars, rzVars, pmVars, upVars, sgVars, ogVars,
                 jfVars>>

ChNext == CallChamferDistance

SpecChamfer == ChInit /\ [][ChNext]_vars

ChPixels == 1..(chWidth * chHeight)

\* the pixels of the first and last row and column
ChBorder ==
  { Idx(x, y, chWidth) : x \in {0, chWidth - 1}, y \in 0..(chHeight - 1) }
  \cup { Idx(x, y, chWidth) : x \in 0..(chWidth - 1), y \in {0, chHeight - 1} }

ChSeeds == { i \in ChPixels : DistanceField(chImage, chInner)[i] = 0 }

\* the part of C36 about the border: chamferDistance leaves every border
\* pixel at its initial value
BorderKept ==
  chDist # <<>> =>
     \A i \in ChBorder : chDist[i] = DistanceField(chImage, chInner)[i]

\* C36: chamferDistance leaves every border pixel as it was, and when the
\* image has a seed, on the border or not, every interior pixel has a finite
\* distance after the two sweeps
C36_InteriorFiniteWithAnySeed ==
  chDist # <<>> =>
     /\ \A i \in ChBorder : chDist[i] = DistanceField(chImage, chInner)[i]
     /\ ChSeeds # {} => \A i \in ChPixels \ ChBorder : chDist[i] < Far

\* --------------------------------------------------------------- SpecJfa
\* executors/outline.ts executeOutlineGpu with its shaders: the passes the
\* two calls of runJfaPass and the composite submit, on frames of every width
\* and height with at most MaxJfPixels pixels. A texel of a JFA texture is the pair of
\* coordinates it holds; a distance is kept as its square, and the composite
\* is followed as far as whether it draws outline on a pixel.
MaxJfPixels == 10

JfThicknesses == {1, 2}
JfPositions == {0, Milli \div 2, Milli}

\* jfa-seed and jfa-step: vec2(-1, -1)
Sentinel == <<-1, -1>>
\* jfa-distance: the distance of a texel that holds the sentinel (1e10)
Unreached == -1

RECURSIVE Pow2(_)
Pow2(n) == IF n = 0 THEN 1 ELSE 2 * Pow2(n - 1)

JfPixels == 1..(jfWidth * jfHeight)

\* gid.xy of the invocation that writes texel i
JfPos(i, width) == <<(i - 1) % width, (i - 1) \div width>>

\* outline.ts lines 122-123
NumSteps == CeilLog2(Larger(jfWidth, jfHeight))

\* jfa-seed, part_006 lines 20-34, with the threshold 0.1 of line 130
JfaSeed(image, width, invert) ==
  [i \in DOMAIN image |->
     IF (image[i].a * 10 > 255) # invert THEN JfPos(i, width) ELSE Sentinel]

\* the square of distance(a, b)
DistSq(a, b) ==
  (a[1] - b[1]) * (a[1] - b[1]) + (a[2] - b[2]) * (a[2] - b[2])

\* faulty variant: the four neighbours along the axes only
JfaOffsetsAxisOnly == << <<0, -1>>, <<-1, 0>>, <<1, 0>>, <<0, 1>> >>

\* jfa-step, lines 49-51: the offsets in the order of the two loops
JfaOffsets ==
  << <<-1, -1>>, <<0, -1>>, <<1, -1>>, <<-1, 0>>, <<1, 0>>, <<-1, 1>>,
     <<0, 1>>, <<1, 1>> >>

RECURSIVE Nearest(_, _, _, _, _, _, _)
\* jfa-step, lines 49-64: bestSeed after the offsets offs
Nearest(tex, width, height, pos, step, offs, bestSeed) ==
  IF offs = <<>> THEN bestSeed
  ELSE LET nx == pos[1] + Head(offs)[1] * step
           ny == pos[2] + Head(offs)[2] * step
           inside == nx >= 0 /\ ny >= 0 /\ nx < width /\ ny < height
           seed == IF inside THEN tex[Idx(nx, ny, width)] ELSE Sentinel
           closer == /\ seed[1] >= 0
                     /\ \/ bestSeed[1] < 0
                        \/ DistSq(pos, seed) < DistSq(pos, bestSeed)
       IN Nearest(tex, width, height, pos, step, Tail(offs),
                  IF closer THEN seed ELSE bestSeed)

\* jfa-step, lines 30-67
JfaStep(tex, width, height, step) ==
  [i \in DOMAIN tex |->
     Nearest(tex, width, height, JfPos(i, width), step, JfaOffsets, tex[i])]

\* jfa-distance, part_007 lines 12-22
JfaDistance(tex, width) ==
  [i \in DOMAIN tex |->
     IF tex[i][1] < 0 THEN Unreached ELSE DistSq(JfPos(i, width), tex[i])]

\* dist < c and dist > c for a distance kept as its square and c in
\* thousandths
DistBelow(sq, c) == c > 0 /\ sq * Milli * Milli < c * c
DistAbove(sq, c) == c < 0 \/ sq * Milli * Milli > c * c

\* composite, part_007 lines 48-66: outlineAlpha > 0, that is signedDist
\* lies strictly between -outerEdge - 0.5 and innerEdge + 0.5
Outlined(image, outer, inner, i, thickness, position) ==
  LET innerEdge == thickness * position
      outerEdge == thickness * (Milli - position)
      low == -outerEdge - Milli \div 2
      high == innerEdge + Milli \div 2
  IN IF image[i].a * 10 > 255
     THEN /\ inner[i] # Unreached
          /\ DistAbove(inner[i], -high)
          /\ DistBelow(inner[i], -low)
     ELSE /\ outer[i] # Unreached
          /\ DistBelow(outer[i], high)

JfInit ==
  /\ jfWidth \in 1..MaxJfPixels
  /\ jfHeight \in 1..(MaxJfPixels \div jfWidth)
  /\ jfImage \in [1..(jfWidth * jfHeight) -> {Transparent, Opaque}]
  /\ jfPc = "seed"
  /\ jfInvert = FALSE
  /\ jfI = 0
  /\ jfStepSize = 0
  /\ jfReadTex = <<>>
  /\ jfOuterDist = <<>>
  /\ jfInnerDist = <<>>
  /\ jfOutline = {}
  /\ PmIdle
  /\ UpIdle
  /\ SgIdle
  /\ OgIdle
  /\ ChIdle
  /\ nodes = <<>>
  /\ edges = <<>>
  /\ GraphIdle
  /\ RunIdle
  /\ HashIdle
  /\ GpuIdle
  /\ ExecIdle
  /\ EditorIdle
  /\ RbIdle
  /\ OlIdle
  /\ RzIdle

JfOthersUnchanged ==
  /\ UNCHANGED <<nodes, edges>>
  /\ UNCHANGED <<graphVars, runVars, hashVars, gpuVars, execVars, editorVars>>
  /\ UNCHANGED <<rbVars, olVars, rzVars, pmVars, upVars, sgVars, ogVars,
                 chVars>>

\* outline.ts lines 129-150: the seed pass, and the loop is set up
SeedPass ==
  /\ jfPc = "seed"
  /\ jfReadTex' = JfaSeed(jfImage, jfWidth, jfInvert)
  /\ jfI' = 0
  /\ jfStepSize' = IF NumSteps = 0 THEN 0 ELSE Pow2(NumSteps - 1)
  /\ jfPc' = IF NumSteps = 0 THEN "distance" ELSE "flood"
  /\ UNCHANGED <<jfWidth, jfHeight, jfImage, jfInvert, jfOuterDist,
                 jfInnerDist, jfOutline>>
  /\ JfOthersUnchanged

\* lines 152-175: one iteration of the loop
FloodPass ==
  /\ jfPc = "flood"
  /\ jfReadTex' = JfaStep(jfReadTex, jfWidth, jfHeight, jfStepSize)
  /\ jfI' = jfI + 1
  /\ jfStepSize' = Larger(1, jfStepSize \div 2)
  /\ jfPc' = IF jfI + 1 < NumSteps THEN "flood" ELSE "distance"
  /\ UNCHANGED <<jfWidth, jfHeight, jfImage, jfInvert, jfOuterDist,
                 jfInnerDist, jfOutline>>
  /\ JfOthersUnchanged

\* lines 177-192, 198-203: the distance pass of the outer field, after which
\* runJfaPass is called for the inner field
OuterDistancePass ==
  /\ jfPc = "distance"
  /\ ~jfInvert
  /\ jfOuterDist' = JfaDistance(jfReadTex, jfWidth)
  /\ jfInvert' = TRUE
  /\ jfPc' = "seed"
  /\ UNCHANGED <<jfWidth, jfHeight, jfImage, jfI, jfStepSize, jfReadTex,
                 jfInnerDist, jfOutline>>
  /\ JfOthersUnchanged

\* lines 177-192: the distance pass of the inner field
InnerDistancePass ==
  /\ jfPc = "distance"
  /\ jfInvert
  /\ jfInnerDist' = JfaDistance(jfReadTex, jfWidth)
  /\ jfPc' = "composite"
  /\ UNCHANGED <<jfWidth, jfHeight, jfImage, jfInvert, jfI, jfStepSize,
                 jfReadTex, jfOuterDist, jfOutline>>
  /\ JfOthersUnchanged

\* lines 207-241: the composite pass, with threshold 0
CompositePass ==
  \E thickness \in JfThicknesses, position \in JfPositions :
    /\ jfPc = "composite"
    /\ jfOutline' = { i \in JfPixels :
                        Outlined(jfImage, jfOuterDist, jfInnerDist, i,
                                 thickness, position) }
    /\ jfPc' = "done"
    /\ UNCHANGED <<jfWidth, jfHeight, jfImage, jfInvert, jfI, jfStepSize,
                   jfReadTex, jfOuterDist, jfInnerDist>>
    /\ JfOthersUnchanged

JfNext ==
  \/ SeedPass
  \/ FloodPass
  \/ OuterDistancePass
  \/ InnerDistancePass
  \/ CompositePass

SpecJfa == JfInit /\ [][JfNext]_vars

\* the coordinates of the seeds of the field that is being computed
JfSeeds(invert) ==
  { JfPos(i, jfWidth) : i \in { j \in JfPixels :
                                  (jfImage[j].a * 10 > 255) # invert } }

\* every texel of a distance texture is finite, or none is
AllFinite(dist) == \A i \in JfPixels : dist[i] # Unreached
NoneFinite(dist) == \A i \in JfPixels : dist[i] = Unreached

\* C35: after the seed pass and the NumSteps flood passes every texel holds
\* the coordinates of a seed if the mask has a seed and the sentinel if it
\* has none; the distances are finite in the first case and 1e10 in the
\* second, in which the composite draws no outline
C35_FloodReachesEveryPixel ==
  /\ jfPc = "distance" =>
       /\ jfI = NumSteps
       /\ \A i \in JfPixels :
            IF JfSeeds(jfInvert) # {} THEN jfReadTex[i] \in JfSeeds(jfInvert)
            ELSE jfReadTex[i] = Sentinel
  /\ jfOuterDist # <<>> =>
       IF JfSeeds(FALSE) # {} THEN AllFinite(jfOuterDist)
       ELSE NoneFinite(jfOuterDist)
  /\ jfInnerDist # <<>> =>
       IF JfSeeds(TRUE) # {} THEN AllFinite(jfInnerDist)
       ELSE NoneFinite(jfInnerDist)
  /\ (jfPc = "done" /\ (JfSeeds(FALSE) = {} \/ JfSeeds(TRUE) = {})) =>
       jfOutline = {}

\* the flood passes are over on a frame three pixels wide and high whose
\* only seed is the pixel in a corner, and every texel holds it
C35_Witness ==
  /\ jfPc = "distance"
  /\ jfWidth = 3
  /\ jfHeight = 3
  /\ jfI = 2
  /\ JfSeeds(jfInvert) = {<<0, 2>>}
  /\ \A i \in JfPixels : jfReadTex[i] = <<0, 2>>

====
